---- MODULE Spec2Model ----
(***************************************************************************)
(* A model of the streamed-response buffering and message splitting of    *)
(* unllamabot (src/unllamabot/llama_backend.py).                           *)
(*                                                                         *)
(* A Python str is a sequence of one-character strings (the backtick is   *)
(* written as an apostrophe, which a TLA+ string can hold).  Python indices *)
(* are 0-based and are kept 0-based in every operator that models a str   *)
(* method; only SubSeq is 1-based.                                         *)
(***************************************************************************)
EXTENDS Integers, Sequences, FiniteSets, TLC

(***************************************************************************)
(* Bounds of the model.                                                    *)
(***************************************************************************)
MaxLen == 6
MaxThreshold == 5
MaxMessageLength == 4
MaxResponse == 5
MaxChunk == 2
MaxChunks == 3
MaxFaultChunks == 2
MaxReply == 4
MaxContent == 8
MaxUsers == 3
MaxCommands == 3
MaxDbUsers == 2
MaxMessages == 3
MaxDbMessages == 2
MaxMessageId == 4
MaxCalls == 2
MaxHistory == 9
MaxStored == 6
MaxPosts == 3
MaxPending == 2

(***************************************************************************)
(* Characters.  The alphabet holds every character split_message treats   *)
(* specially and one ordinary letter.                                      *)
(***************************************************************************)
NL == "\n"
DOT == "."
SP == " "
BT == "'"
LETTER == "a"
Chars == {NL, DOT, SP, BT, LETTER}
Whitespace == {NL, SP}

Strings(n) == UNION {[1..k -> Chars] : k \in 0..n}

(***************************************************************************)
(* Optional values: None, or Some(x).                                      *)
(***************************************************************************)
None == <<>>
Some(x) == <<x>>
IsNone(o) == o = <<>>
Value(o) == o[1]

Max(S) == CHOOSE x \in S : \A y \in S : y <= x
Min(S) == CHOOSE x \in S : \A y \in S : x <= y

(***************************************************************************)
(* Python str operations.                                                  *)
(***************************************************************************)
\* An index of a slice, clamped the way Python clamps it.
Norm(i, n) == IF i < 0 THEN (IF i + n < 0 THEN 0 ELSE i + n)
                       ELSE (IF i > n THEN n ELSE i)

\* s[a:b]
Slice(s, a, b) == SubSeq(s, Norm(a, Len(s)) + 1, Norm(b, Len(s)))

\* s[a:]
SliceFrom(s, a) == Slice(s, a, Len(s))

\* s[:b]
SliceTo(s, b) == Slice(s, 0, b)

\* sub occurs in s at the 0-based index i
MatchAt(s, sub, i) ==
    /\ i >= 0
    /\ i + Len(sub) <= Len(s)
    /\ SubSeq(s, i + 1, i + Len(sub)) = sub

\* s.rfind(sub)
RFind(s, sub) ==
    LET hits == {i \in 0..(Len(s) - Len(sub)) : MatchAt(s, sub, i)}
    IN  IF hits = {} THEN -1 ELSE Max(hits)

\* s.find(sub, start)
Find(s, sub, start) ==
    LET hits == {i \in start..(Len(s) - Len(sub)) : MatchAt(s, sub, i)}
    IN  IF hits = {} THEN -1 ELSE Min(hits)

\* s.count(sub): the occurrences that do not overlap, scanned from the left
RECURSIVE CountFrom(_, _, _)
CountFrom(s, sub, i) ==
    IF i + Len(sub) > Len(s) THEN 0
    ELSE IF MatchAt(s, sub, i) THEN 1 + CountFrom(s, sub, i + Len(sub))
    ELSE CountFrom(s, sub, i + 1)

Count(s, sub) == CountFrom(s, sub, 0)

\* s.isspace()
IsSpace(s) == Len(s) > 0 /\ \A i \in 1..Len(s) : s[i] \in Whitespace

\* s.rstrip()
RECURSIVE RStrip(_)
RStrip(s) ==
    IF Len(s) > 0 /\ s[Len(s)] \in Whitespace
    THEN RStrip(SubSeq(s, 1, Len(s) - 1))
    ELSE s

(***************************************************************************)
(* find_last_occurence(input, strings): the first string of the list      *)
(* whose last occurrence in input is at an index > 0.                      *)
(***************************************************************************)
RECURSIVE FindLastFromAtStart(_, _, _)
FindLastFromAtStart(input, strings, k) ==
    IF k > Len(strings) THEN None
    ELSE LET found_char_index == RFind(input, strings[k])
         IN  IF found_char_index >= 0
             THEN Some([index |-> found_char_index, separator |-> strings[k]])
             ELSE FindLastFromAtStart(input, strings, k + 1)

RECURSIVE FindLastFrom(_, _, _)
FindLastFrom(input, strings, k) ==
    IF k > Len(strings) THEN None
    ELSE LET found_char_index == RFind(input, strings[k])
         IN  IF found_char_index > 0
             THEN Some([index |-> found_char_index, separator |-> strings[k]])
             ELSE FindLastFrom(input, strings, k + 1)

find_last_occurence(input, strings) == FindLastFrom(input, strings, 1)

(***************************************************************************)
(* split_message(message, threshold), step by step.                        *)
(***************************************************************************)
SeparatorsWordFirst == << <<SP>>, <<DOT, SP>>, <<NL>> >>
Separators == << <<NL>>, <<DOT, SP>>, <<SP>> >>
Fence == <<BT, BT, BT>>

\* message[:threshold] and message[threshold:]
HardFirstOffByOne(message, threshold) == SliceTo(message, threshold + 1)
HardFirst(message, threshold) == SliceTo(message, threshold)
HardSecond(message, threshold) == SliceFrom(message, threshold)

Occurence(message, threshold) ==
    find_last_occurence(HardFirst(message, threshold), Separators)

\* the end of the first message once the separator is found
FirstEndAtIndex(occ) == occ.index
FirstEnd(occ) ==
    IF IsSpace(occ.separator) THEN occ.index
    ELSE occ.index + Len(RStrip(occ.separator))

\* first_message and second_message after the boundary refinement
RefinedFirst(message, threshold) ==
    LET first_message == HardFirst(message, threshold)
        occurence == Occurence(message, threshold)
    IN  IF IsNone(occurence) THEN first_message
        ELSE SliceTo(first_message, FirstEnd(Value(occurence)))

RefinedSecond(message, threshold) ==
    LET first_message == HardFirst(message, threshold)
        second_message == HardSecond(message, threshold)
        occurence == Occurence(message, threshold)
    IN  IF IsNone(occurence) THEN second_message
        ELSE SliceFrom(first_message,
                       Value(occurence).index + Len(Value(occurence).separator))
             \o second_message

\* an unclosed code block: an odd number of markers in the first message
Unclosed(first_message) == Count(first_message, Fence) % 2 # 0

\* the opening marker of the second message: ``` and the language marker
StartingMarkerIndex(first_message) ==
    LET last_marker == RFind(first_message, Fence)
        last_marker_ending == Find(first_message, <<NL>>, last_marker)
        last_marker_slice == Slice(first_message, last_marker, last_marker_ending)
    IN  IF last_marker_ending < 0 THEN <<"ValueError">>
        ELSE IF Len(last_marker_slice) > 3
        THEN Fence \o SliceFrom(last_marker_slice, 3)
        ELSE Fence

StartingMarker(first_message) ==
    LET last_marker == RFind(first_message, Fence)
        last_marker_ending == Find(first_message, <<NL>>, last_marker)
        last_marker_slice == Slice(first_message, last_marker, last_marker_ending)
    IN  IF Len(last_marker_slice) > 3
        THEN Fence \o SliceFrom(last_marker_slice, 3)
        ELSE Fence

ClosingText == <<NL>> \o Fence

\* the message needs no split
BelowOrAtThreshold(message, threshold) == Len(message) <= threshold
BelowThresholdMinusOne(message, threshold) == Len(message) < threshold - 1
BelowThreshold(message, threshold) == Len(message) < threshold

split_message(message, threshold) ==
    IF BelowThreshold(message, threshold)
    THEN [first |-> message, second |-> None]
    ELSE LET first_message == RefinedFirst(message, threshold)
             second_message == RefinedSecond(message, threshold)
         IN  IF Unclosed(first_message)
             THEN [first |-> first_message \o ClosingText,
                   second |-> Some(StartingMarker(first_message) \o <<NL>>
                                   \o second_message)]
             ELSE [first |-> first_message, second |-> Some(second_message)]

(***************************************************************************)
(* LlamaResponseChunk: the events get_buffered_llm_response yields.        *)
(* chunk is the loop variable: [content, stop].                            *)
(***************************************************************************)
\* the event of the open message (llama_backend.py:112-119 and 129-136)
OpenEventChunkAsMessage(current_message, chunk, response, new_message) ==
    [message |-> chunk.content,
     chunk |-> Some(chunk.content),
     response |-> response,
     end_of_message |-> FALSE,
     end_of_response |-> chunk.stop,
     new_message |-> new_message]

OpenEventNotNew(current_message, chunk, response, new_message) ==
    [message |-> current_message,
     chunk |-> Some(chunk.content),
     response |-> response,
     end_of_message |-> FALSE,
     end_of_response |-> chunk.stop,
     new_message |-> FALSE]

OpenEventFinalOnStop(current_message, chunk, response, new_message) ==
    [message |-> current_message,
     chunk |-> Some(chunk.content),
     response |-> response,
     end_of_message |-> chunk.stop,
     end_of_response |-> chunk.stop,
     new_message |-> new_message]

OpenEvent(current_message, chunk, response, new_message) ==
    [message |-> current_message,
     chunk |-> Some(chunk.content),
     response |-> response,
     end_of_message |-> FALSE,
     end_of_response |-> chunk.stop,
     new_message |-> new_message]

\* the event that closes a message that reached the limit
ClosingEventWithChunk(current_message, chunk, response) ==
    [message |-> current_message,
     chunk |-> Some(chunk.content),
     response |-> response,
     end_of_message |-> TRUE,
     end_of_response |-> FALSE,
     new_message |-> FALSE]

ClosingEventMessageAsResponse(current_message, chunk, response) ==
    [message |-> current_message,
     chunk |-> None,
     response |-> current_message,
     end_of_message |-> TRUE,
     end_of_response |-> FALSE,
     new_message |-> FALSE]

ClosingEventOnStop(current_message, chunk, response) ==
    [message |-> current_message,
     chunk |-> None,
     response |-> response,
     end_of_message |-> TRUE,
     end_of_response |-> chunk.stop,
     new_message |-> FALSE]

ClosingEvent(current_message, chunk, response) ==
    [message |-> current_message,
     chunk |-> None,
     response |-> response,
     end_of_message |-> TRUE,
     end_of_response |-> FALSE,
     new_message |-> FALSE]

(***************************************************************************)
(* State.                                                                  *)
(***************************************************************************)
VARIABLES
    arg_message,    \* split_message: the message argument
    arg_threshold,  \* split_message: the threshold argument
    ret,            \* split_message: None before the call, Some(result) after
    message_length, \* get_buffered_llm_response: the message_length argument
    message,        \* its local: the text of the open message
    response,       \* its local: the full response
    chunk,          \* its loop variable, None before the first chunk
    next_message,   \* its local: the second part of the last split, or None
    pc,             \* where the generator is suspended
    events,         \* what it has yielded so far, in order
    transport,      \* the chunk stream: "open" or "closed"
    failure,        \* the error the transport raised, or None
    raised,         \* the error that came out of the generator, or None
    chunks,         \* history: the chunks the transport has delivered
    source,         \* history: which characters of message are chunk text
    next_source,    \* history: the same for next_message
    event_source,   \* history: the same for the message of each event
    db_messages,    \* BotDatabase: the messages of the user, by position
    user_message,   \* process_message: the message argument, None before the call
    full_response,  \* its local: None, or the response of the final event
    bot_pc,         \* where process_message is: idle, streaming, done, raised
    bot_raised,     \* the error that came out of process_message, or None
    db_at_call,     \* history: db_messages when process_message was called
    reply_content,  \* chained_reply: the reply_content argument
    message_length_limit,   \* config.message_length_limit
    chain_pc,       \* where the chain is: idle, call (a call is due), reply, done
    last_reply,     \* the content of the reply sent last, or None
    admins_id,      \* config.admins_id
    client_config,  \* what self.config gives on the client: "absent" or "bot_config"
    command_log,    \* the refresh commands handled so far and what each did
    is_open,        \* BotDatabase.is_open
    default_system_prompt,  \* BotDatabase.default_system_prompt
    users,          \* table users: id -> the row's system_prompt
    messages,       \* table messages: the set of its rows
    held_message,   \* a Message object the caller got from get_message, or None
    gen_params,     \* table users: the generation parameters of each user id
    tasks,          \* the process_message calls in progress, by call id
    client_user,    \* self.user of the client: None before the login
    posts,          \* the Discord messages, by message id
    pending_reactions, \* the reaction events the client has not handled yet
    removed,        \* the reaction events on_raw_reaction_add deleted a message for
    reply_chain,    \* the contents of the bot messages of process_inference_command
    rendered,       \* the number of events its loop has consumed
    render_pc,      \* where process_inference_command is
    db_op,          \* the BotDatabase method called last
    db_result,      \* what it returned: None, or Some(value)
    db_raised       \* the exception it raised, or None

split_vars == <<arg_message, arg_threshold, ret>>
stream_vars == <<message_length, message, response, chunk, next_message, pc,
                 events, transport, failure, raised, chunks, source,
                 next_source, event_source>>
bot_vars == <<db_messages, user_message, full_response, bot_pc, bot_raised,
              db_at_call>>
vars == <<arg_message, arg_threshold, ret, message_length, message, response,
          chunk, next_message, pc, events, transport, failure, raised, chunks,
          source, next_source, event_source, db_messages, user_message,
          full_response, bot_pc, bot_raised, db_at_call, reply_content,
          message_length_limit, chain_pc, last_reply, admins_id, client_config,
          command_log, is_open, default_system_prompt, users, messages,
          held_message, gen_params, db_op, db_result, db_raised, tasks,
          client_user, posts, pending_reactions, removed, reply_chain,
          rendered, render_pc>>
chain_vars == <<reply_content, message_length_limit, chain_pc, last_reply>>
admin_vars == <<admins_id, client_config, command_log>>
\* the generation parameters of the model: a float, an int and a bool column
\* of table users; a new row has NULL in each
ParameterNames == {"temperature", "top_k", "penalize_nl"}
NoParameters == [n \in ParameterNames |-> None]

store_vars == <<is_open, default_system_prompt, users, messages>>
db_vars == <<is_open, default_system_prompt, users, messages, held_message,
             gen_params, db_op, db_result, db_raised>>

react_vars == <<client_user, posts, pending_reactions, removed>>
render_vars == <<reply_chain, rendered, render_pc>>
ext_vars == <<tasks, react_vars, render_vars>>

Flags(n, b) == [i \in 1..n |-> b]

Last(s) == s[Len(s)]

\* the state in which no stream runs
StreamIdle ==
    /\ message = <<>>
    /\ response = <<>>
    /\ chunk = None
    /\ next_message = None
    /\ pc = "await"
    /\ events = <<>>
    /\ transport = "open"
    /\ failure = None
    /\ raised = None
    /\ chunks = <<>>
    /\ source = <<>>
    /\ next_source = <<>>
    /\ event_source = <<>>

\* the state in which process_message has not been called
BotIdle ==
    /\ db_messages = <<>>
    /\ user_message = None
    /\ full_response = None
    /\ bot_pc = "idle"
    /\ bot_raised = None
    /\ db_at_call = <<>>

\* a process_message call that has not started
TaskIdle == [pc |-> "idle", message |-> None, full_response |-> None]

\* the state in which no further process_message call has started
ExtIdle ==
    /\ tasks = [c \in 1..MaxCalls |-> TaskIdle]
    /\ client_user = None
    /\ posts = <<>>
    /\ pending_reactions = <<>>
    /\ removed = {}
    /\ reply_chain = <<>>
    /\ rendered = 0
    /\ render_pc = "idle"

\* the state in which chained_reply has not been called
ChainIdle ==
    /\ reply_content = <<>>
    /\ message_length_limit = 1
    /\ chain_pc = "idle"
    /\ last_reply = None

\* the state in which the client has handled no command
AdminIdle ==
    /\ admins_id = {}
    /\ client_config = "absent"
    /\ command_log = <<>>

\* the state in which no BotDatabase has been constructed
DbIdle ==
    /\ is_open = FALSE
    /\ default_system_prompt = ""
    /\ users = <<>>
    /\ messages = {}
    /\ held_message = None
    /\ gen_params = [u \in 1..MaxDbUsers |-> NoParameters]
    /\ db_op = "__init__"
    /\ db_result = None
    /\ db_raised = None

(***************************************************************************)
(* SplitSpec: one call of split_message on any bounded input.              *)
(***************************************************************************)
SplitInit ==
    /\ arg_message \in Strings(MaxLen)
    /\ arg_threshold \in 1..MaxThreshold
    /\ ret = None
    /\ message_length = 1
    /\ StreamIdle
    /\ BotIdle
    /\ ChainIdle
    /\ AdminIdle
    /\ DbIdle
    /\ ExtIdle

CallSplit ==
    /\ IsNone(ret)
    /\ ret' = Some(split_message(arg_message, arg_threshold))
    /\ UNCHANGED <<arg_message, arg_threshold>>
    /\ UNCHANGED stream_vars

SplitNext == CallSplit /\ UNCHANGED <<bot_vars, chain_vars, admin_vars, db_vars, ext_vars>>

SplitSpec == SplitInit /\ [][SplitNext]_vars

(***************************************************************************)
(* SplitAnySpec: the same call with any threshold >= 0.                    *)
(***************************************************************************)
SplitAnyInit ==
    /\ arg_message \in Strings(MaxLen)
    /\ arg_threshold \in 0..MaxThreshold
    /\ ret = None
    /\ message_length = 1
    /\ StreamIdle
    /\ BotIdle
    /\ ChainIdle
    /\ AdminIdle
    /\ DbIdle
    /\ ExtIdle

SplitAnySpec == SplitAnyInit /\ [][SplitNext]_vars

(***************************************************************************)
(* Spec: one run of get_buffered_llm_response(prompt, message_length).     *)
(***************************************************************************)
Init ==
    /\ arg_message = <<>>
    /\ arg_threshold = 1
    /\ ret = None
    /\ message_length \in 1..MaxMessageLength
    /\ StreamIdle
    /\ BotIdle
    /\ ChainIdle
    /\ AdminIdle
    /\ DbIdle
    /\ ExtIdle

\* The transport delivers a chunk and the loop body runs up to its first
\* yield.  last: the transport ends the stream after this chunk.
Deliver(content, stop, last) ==
    /\ pc = "await"
    /\ transport = "open"
    /\ Len(chunks) < MaxChunks
    /\ Len(response) + Len(content) <= MaxResponse
    /\ LET c == [content |-> content, stop |-> stop]
           new_response == response \o content
           new_message == message \o content
           new_source == source \o Flags(Len(content), TRUE)
           split == split_message(new_message, message_length)
           first_message == RefinedFirst(new_message, message_length)
           second_message == RefinedSecond(new_message, message_length)
           unclosed == Unclosed(first_message)
       IN  /\ chunk' = Some(c)
           /\ chunks' = Append(chunks, c)
           /\ transport' = IF last THEN "closed" ELSE "open"
           /\ response' = new_response
           /\ message' = new_message
           /\ next_message' = split.second
           /\ IF IsNone(split.second)
              THEN /\ events' = Append(events,
                        OpenEvent(split.first, c, new_response, FALSE))
                   /\ event_source' = Append(event_source, new_source)
                   /\ source' = new_source
                   /\ next_source' = <<>>
                   /\ pc' = "await"
              ELSE /\ events' = Append(events,
                        ClosingEvent(split.first, c, new_response))
                   /\ event_source' = Append(event_source,
                        SubSeq(new_source, 1, Len(first_message))
                        \o Flags(IF unclosed THEN Len(ClosingText) ELSE 0, FALSE))
                   /\ source' = new_source
                   /\ next_source' =
                        Flags(IF unclosed
                              THEN Len(StartingMarker(first_message)) + 1
                              ELSE 0, FALSE)
                        \o SubSeq(new_source,
                                  Len(new_message) - Len(second_message) + 1,
                                  Len(new_message))
                   /\ pc' = "yield_next"
    /\ UNCHANGED <<message_length, failure, raised>>
    /\ UNCHANGED split_vars

\* The transport of the tests: the chunk marked stop is the last one of the
\* stream (tests/llama_backend_tests.py, LlamaMock.get_streamed_completion).
Consume(content, stop) == Deliver(content, stop, stop)

\* The second yield of a split, and the assignment that follows it.
YieldNextKeepsMessage ==
    /\ pc = "yield_next"
    /\ events' = Append(events,
            OpenEvent(Value(next_message), Value(chunk), response, TRUE))
    /\ event_source' = Append(event_source, next_source)
    /\ pc' = "await"
    /\ UNCHANGED <<message_length, message, response, chunk, next_message,
                   transport, failure, raised, chunks, source, next_source>>
    /\ UNCHANGED split_vars

YieldNext ==
    /\ pc = "yield_next"
    /\ events' = Append(events,
            OpenEvent(Value(next_message), Value(chunk), response, TRUE))
    /\ event_source' = Append(event_source, next_source)
    /\ message' = Value(next_message)
    /\ source' = next_source
    /\ pc' = "await"
    /\ UNCHANGED <<message_length, response, chunk, next_message, transport,
                   failure, raised, chunks, next_source>>
    /\ UNCHANGED split_vars

\* The stream is exhausted: the generator returns.
Finish ==
    /\ pc = "await"
    /\ transport = "closed"
    /\ pc' = "done"
    /\ UNCHANGED <<message_length, message, response, chunk, next_message,
                   events, transport, failure, raised, chunks, source,
                   next_source, event_source>>
    /\ UNCHANGED split_vars

Next ==
    \/ \E content \in Strings(MaxChunk), stop \in BOOLEAN :
           Consume(content, stop) /\ UNCHANGED <<bot_vars, chain_vars, admin_vars, db_vars, ext_vars>>
    \/ YieldNext /\ UNCHANGED <<bot_vars, chain_vars, admin_vars, db_vars, ext_vars>>
    \/ Finish /\ UNCHANGED <<bot_vars, chain_vars, admin_vars, db_vars, ext_vars>>

Spec == Init /\ [][Next]_vars

(***************************************************************************)
(* FaultSpec: the same generator on a transport that promises nothing: it  *)
(* may go on after the chunk marked stop, end without one, or raise.       *)
(***************************************************************************)
TransportErrors == {"TimeoutError", "ConnectionError"}

\* What comes out of the generator when the transport raises e: the loop has
\* no try, so e itself.
PropagateWrapped(e) == Some("RuntimeError")
Propagate(e) == Some(e)

\* The transport raises while the generator awaits the next chunk.
TransportRaises(e) ==
    /\ pc = "await"
    /\ transport = "open"
    /\ failure' = Some(e)
    /\ raised' = Propagate(e)
    /\ transport' = "failed"
    /\ pc' = "raised"
    /\ UNCHANGED <<message_length, message, response, chunk, next_message,
                   events, chunks, source, next_source, event_source>>
    /\ UNCHANGED split_vars

FaultNext ==
    \/ \E content \in Strings(MaxChunk), stop \in BOOLEAN, last \in BOOLEAN :
           /\ Len(chunks) < MaxFaultChunks
           /\ Deliver(content, stop, last)
           /\ UNCHANGED <<bot_vars, chain_vars, admin_vars, db_vars, ext_vars>>
    \/ YieldNext /\ UNCHANGED <<bot_vars, chain_vars, admin_vars, db_vars, ext_vars>>
    \/ Finish /\ UNCHANGED <<bot_vars, chain_vars, admin_vars, db_vars, ext_vars>>
    \/ \E e \in TransportErrors : TransportRaises(e) /\ UNCHANGED <<bot_vars, chain_vars, admin_vars, db_vars, ext_vars>>

FaultSpec == Init /\ [][FaultNext]_vars

(***************************************************************************)
(* BotSpec: one call of process_message(message, user_id) for a user with  *)
(* or without earlier messages, on the transport of FaultSpec.             *)
(***************************************************************************)
SYSTEM == "system"
USER == "user"
BOT == "assistant"

\* user.system_prompt, and the texts a user sends
SystemPrompt == <<LETTER, DOT>>
UserMessages == {<<LETTER>>, <<LETTER, SP, LETTER>>}

\* db.add_message(user_id, role, message): the row gets the next position
add_message(history, role, text) ==
    Append(history, [role |-> role, message |-> text])

\* db.user_has_messages(user_id)
user_has_messages(history) == history # <<>>

\* the history of a user who has talked to the bot before
EarlierHistory ==
    add_message(add_message(add_message(<<>>, SYSTEM, SystemPrompt),
                            USER, <<LETTER>>), BOT, <<LETTER, LETTER>>)

BotInit ==
    /\ arg_message = <<>>
    /\ arg_threshold = 1
    /\ ret = None
    /\ message_length \in 1..MaxMessageLength
    /\ StreamIdle
    /\ db_messages \in {<<>>, EarlierHistory}
    /\ user_message = None
    /\ full_response = None
    /\ bot_pc = "idle"
    /\ bot_raised = None
    /\ db_at_call = db_messages
    /\ ChainIdle
    /\ AdminIdle
    /\ DbIdle
    /\ ExtIdle

\* The call up to the first request for an event: the system prompt is stored
\* for a user without messages, then the user's message.
ProcessMessage(text) ==
    /\ bot_pc = "idle"
    /\ user_message' = Some(text)
    /\ db_messages' =
           add_message(IF user_has_messages(db_messages) THEN db_messages
                       ELSE add_message(db_messages, SYSTEM, SystemPrompt),
                       USER, text)
    /\ full_response' = None
    /\ bot_pc' = "streaming"
    /\ UNCHANGED <<bot_raised, db_at_call>>
    /\ UNCHANGED stream_vars
    /\ UNCHANGED split_vars

\* the body of the loop of process_message after the event was passed on
FullResponseFromMessage(current, event) ==
    IF event.end_of_response THEN Some(event.message) ELSE current

FullResponseAfter(current, event) ==
    IF event.end_of_response THEN Some(event.response) ELSE current

\* An event of the generator passes through process_message.
BotDeliver(content, stop, last) ==
    /\ bot_pc = "streaming"
    /\ Len(chunks) < MaxFaultChunks
    /\ Deliver(content, stop, last)
    /\ full_response' = FullResponseAfter(full_response, Last(events'))
    /\ UNCHANGED <<db_messages, user_message, bot_pc, bot_raised, db_at_call>>

BotYieldNext ==
    /\ bot_pc = "streaming"
    /\ YieldNext
    /\ full_response' = FullResponseAfter(full_response, Last(events'))
    /\ UNCHANGED <<db_messages, user_message, bot_pc, bot_raised, db_at_call>>

\* The error of the transport passes through process_message: no try.
BotTransportRaises(e) ==
    /\ bot_pc = "streaming"
    /\ TransportRaises(e)
    /\ bot_pc' = "raised"
    /\ bot_raised' = raised'
    /\ UNCHANGED <<db_messages, user_message, full_response, db_at_call>>

\* The generator returns and full_response is stored; the column message is
\* NOT NULL, so storing None raises and stores nothing.
StoreResponse ==
    /\ bot_pc = "streaming"
    /\ Finish
    /\ IF IsNone(full_response)
       THEN /\ bot_pc' = "raised"
            /\ bot_raised' = Some("IntegrityError")
            /\ UNCHANGED db_messages
       ELSE /\ bot_pc' = "done"
            /\ db_messages' = add_message(db_messages, BOT, Value(full_response))
            /\ UNCHANGED bot_raised
    /\ UNCHANGED <<user_message, full_response, db_at_call>>

BotNext ==
    \/ \E text \in UserMessages : ProcessMessage(text) /\ UNCHANGED <<chain_vars, admin_vars, db_vars, ext_vars>>
    \/ \E content \in Strings(MaxChunk), stop \in BOOLEAN, last \in BOOLEAN :
           BotDeliver(content, stop, last) /\ UNCHANGED <<chain_vars, admin_vars, db_vars, ext_vars>>
    \/ BotYieldNext /\ UNCHANGED <<chain_vars, admin_vars, db_vars, ext_vars>>
    \/ \E e \in TransportErrors : BotTransportRaises(e) /\ UNCHANGED <<chain_vars, admin_vars, db_vars, ext_vars>>
    \/ StoreResponse /\ UNCHANGED <<chain_vars, admin_vars, db_vars, ext_vars>>

BotSpec == BotInit /\ [][BotNext]_vars

(***************************************************************************)
(* ChainSpec: chained_reply(message_to_reply_to, reply_content), one step  *)
(* per call of the recursion.  A call whose content has grown beyond       *)
(* MaxContent is not followed any further.                                 *)
(***************************************************************************)
ChainInit ==
    /\ arg_message = <<>>
    /\ arg_threshold = 1
    /\ ret = None
    /\ message_length = 1
    /\ StreamIdle
    /\ BotIdle
    /\ AdminIdle
    /\ DbIdle
    /\ ExtIdle
    /\ reply_content \in Strings(MaxReply)
    /\ message_length_limit \in 1..MaxThreshold
    /\ chain_pc = "call"
    /\ last_reply = None

\* A call starts: split_message is computed and bot_reply(first) is awaited.
ChainedReply ==
    /\ chain_pc = "call"
    /\ Len(reply_content) <= MaxContent
    /\ chain_pc' = "reply"
    /\ UNCHANGED <<reply_content, message_length_limit, last_reply>>
    /\ UNCHANGED <<split_vars, stream_vars, bot_vars, admin_vars, db_vars, ext_vars>>

\* The reply is sent; the call recurses on second when there is one.
BotReply ==
    /\ chain_pc = "reply"
    /\ LET split == split_message(reply_content, message_length_limit)
       IN  /\ last_reply' = Some(split.first)
           /\ IF IsNone(split.second)
              THEN /\ chain_pc' = "done"
                   /\ UNCHANGED reply_content
              ELSE /\ chain_pc' = "call"
                   /\ reply_content' = Value(split.second)
    /\ UNCHANGED message_length_limit
    /\ UNCHANGED <<split_vars, stream_vars, bot_vars, admin_vars, db_vars, ext_vars>>

ChainNext ==
    \/ ChainedReply
    \/ BotReply

\* every call that is due is made
ChainSpec == ChainInit /\ [][ChainNext]_vars /\ WF_vars(ChainNext)

(***************************************************************************)
(* AdminSpec: the client handles refresh commands, each through the        *)
(* wrapper of requires_admin_permission.  The wrapper reads self.config;   *)
(* the client class sets self.bot only, so whether the attribute exists is *)
(* up to its base class discord.Client: both outcomes are kept.            *)
(***************************************************************************)
UserIds == 1..MaxUsers

PermissionDenied == "You do not have permission to use this command."
MetadataRefreshed == "Bot's metadata refreshed!"

\* user_is_admin(user, config)
user_is_admin(user_id, admins) == user_id \in admins

AdminInit ==
    /\ arg_message = <<>>
    /\ arg_threshold = 1
    /\ ret = None
    /\ message_length = 1
    /\ StreamIdle
    /\ BotIdle
    /\ ChainIdle
    /\ admins_id \in SUBSET UserIds
    /\ client_config \in {"absent", "bot_config"}
    /\ command_log = <<>>
    /\ DbIdle
    /\ ExtIdle

\* what the wrapper does for a message of author: handler_ran tells whether
\* process_refresh_command itself was awaited
WrapperOutcome(author) ==
    IF client_config = "absent"
    THEN [author |-> author, handler_ran |-> FALSE, reply |-> None,
          raised |-> Some("AttributeError")]
    ELSE IF user_is_admin(author, admins_id)
    THEN [author |-> author, handler_ran |-> FALSE,
          reply |-> Some(PermissionDenied), raised |-> None]
    ELSE [author |-> author, handler_ran |-> TRUE,
          reply |-> Some(MetadataRefreshed), raised |-> None]

\* on_message dispatches a refresh command of author
ProcessRefreshCommand(author) ==
    /\ Len(command_log) < MaxCommands
    /\ command_log' = Append(command_log, WrapperOutcome(author))
    /\ UNCHANGED <<admins_id, client_config>>
    /\ UNCHANGED <<split_vars, stream_vars, bot_vars, chain_vars, db_vars, ext_vars>>

AdminNext == \E author \in UserIds : ProcessRefreshCommand(author)

AdminSpec == AdminInit /\ [][AdminNext]_vars

(***************************************************************************)
(* DbSpec: one BotDatabase on a database file, and a caller that calls its *)
(* public methods in any order.  The tables outlive close() and open().    *)
(***************************************************************************)
DbUserIds == 1..MaxDbUsers
MessageIds == 1..MaxMessageId
Positions == 0..(MaxMessages - 1)
\* system prompts: the one of __init__ and another one
Prompts == {"", "P1"}
Texts == {"hi"}
Roles == {SYSTEM, USER, BOT}
\* the roles the caller of DbSpec stores: the code compares a role with
\* SYSTEM only
DbRoles == {SYSTEM, USER}

\* user_exists(user_id)
user_exists(table, user_id) == user_id \in DOMAIN table

\* the rows of messages WHERE user_id == ?
UserRows(rows, user_id) == {r \in rows : r.user_id = user_id}

\* _next_user_message_position(user_id)
next_user_message_position(rows, user_id) ==
    IF UserRows(rows, user_id) = {} THEN 0
    ELSE Max({r.position : r \in UserRows(rows, user_id)}) + 1

\* the id sqlite gives a new row of messages: INTEGER PRIMARY KEY without
\* AUTOINCREMENT, so one more than the largest id in the table
NextRowId(rows) ==
    IF rows = {} THEN 1 ELSE Max({r.id : r \in rows}) + 1

\* INSERT INTO users(id, system_prompt)
InsertUserWithEmptyPrompt(table, user_id, system_prompt) ==
    [u \in DOMAIN table \cup {user_id} |->
        IF u = user_id THEN "" ELSE table[u]]

InsertUser(table, user_id, system_prompt) ==
    [u \in DOMAIN table \cup {user_id} |->
        IF u = user_id THEN system_prompt ELSE table[u]]

\* DELETE FROM users WHERE id == ?
RemoveUser(table, user_id) == [u \in DOMAIN table \ {user_id} |-> table[u]]

\* the rows left by DELETE FROM users: messages.user_id is declared
\* REFERENCES users(id) ON DELETE CASCADE and foreign_keys is ON
CascadeKeepsRows(rows, user_id) == rows

Cascade(rows, user_id) == {r \in rows : r.user_id # user_id}

\* INSERT INTO messages(user_id, timestamp, position, role, message)
InsertAtPositionOne(rows, user_id, role, text) ==
    rows \cup {[id |-> NextRowId(rows), user_id |-> user_id, position |-> 1,
                role |-> role, message |-> text]}

InsertMessage(rows, user_id, role, text) ==
    rows \cup {[id |-> NextRowId(rows), user_id |-> user_id,
                position |-> next_user_message_position(rows, user_id),
                role |-> role, message |-> text]}

\* _get_user_messages_ids_and_position_from(user_id, from_position)
get_user_messages_ids_and_position_from(rows, user_id, from_position) ==
    {r \in UserRows(rows, user_id) : r.position > from_position}

\* delete_message(message): the rows after it
DeleteShiftsEveryUser(rows, m) ==
    {r \in {IF s.position > m.position
            THEN [s EXCEPT !.position = @ - 1] ELSE s : s \in rows} :
        r.id # m.id}

delete_message(rows, m) ==
    LET messages_to_update ==
            get_user_messages_ids_and_position_from(rows, m.user_id, m.position)
        updated == {IF r \in messages_to_update
                    THEN [r EXCEPT !.position = @ - 1] ELSE r : r \in rows}
    IN  {r \in updated : r.id # m.id}

\* UPDATE users SET system_prompt = ? WHERE system_prompt == ?
UpdateDefaultOfEveryUser(table, old_default, new_system_prompt) ==
    [u \in DOMAIN table |-> new_system_prompt]

UpdateDefault(table, old_default, new_system_prompt) ==
    [u \in DOMAIN table |->
        IF table[u] = old_default THEN new_system_prompt ELSE table[u]]

\* UPDATE messages SET message = ? WHERE user_id == ? AND role == ?
UpdateEveryMessage(rows, user_id, new_system_prompt) ==
    {IF r.user_id = user_id
     THEN [r EXCEPT !.message = new_system_prompt] ELSE r : r \in rows}

UpdateSystemMessages(rows, user_id, new_system_prompt) ==
    {IF r.user_id = user_id /\ r.role = SYSTEM
     THEN [r EXCEPT !.message = new_system_prompt] ELSE r : r \in rows}

\* the fields of a Message object that delete_message reads
MessageObject(r) ==
    [id |-> r.id, user_id |-> r.user_id, position |-> r.position]

\* how a call ends
Returned(op, value) ==
    /\ db_op' = op
    /\ db_result' = value
    /\ db_raised' = None

Raised(op, e) ==
    /\ db_op' = op
    /\ db_result' = None
    /\ db_raised' = Some(e)

\* the wrapper of _requires_open_db on a database that is not open
NotOpenReturns(op) ==
    /\ Returned(op, None)
    /\ UNCHANGED <<is_open, default_system_prompt, users, messages, held_message, gen_params>>

NotOpen(op) ==
    /\ Raised(op, "DatabaseNotOpen")
    /\ UNCHANGED <<is_open, default_system_prompt, users, messages, held_message, gen_params>>

DbInit ==
    /\ arg_message = <<>>
    /\ arg_threshold = 1
    /\ ret = None
    /\ message_length = 1
    /\ StreamIdle
    /\ BotIdle
    /\ ChainIdle
    /\ AdminIdle
    /\ DbIdle
    /\ ExtIdle

\* open(database_path); the update of the default prompt it ends with
\* replaces the default by itself
Open ==
    IF is_open
    THEN /\ Raised("open", "DatabaseAlreadyOpen")
         /\ UNCHANGED <<is_open, default_system_prompt, users, messages,
                        held_message, gen_params>>
    ELSE /\ is_open' = TRUE
         /\ users' = UpdateDefault(users, default_system_prompt,
                                   default_system_prompt)
         /\ Returned("open", None)
         /\ UNCHANGED <<default_system_prompt, messages, held_message, gen_params>>

Close ==
    IF ~is_open THEN NotOpen("close")
    ELSE /\ is_open' = FALSE
         /\ Returned("close", None)
         /\ UNCHANGED <<default_system_prompt, users, messages, held_message, gen_params>>

ChangeGlobalDefaultSystemPrompt(new_system_prompt) ==
    IF ~is_open THEN NotOpen("change_global_default_system_prompt")
    ELSE /\ users' = UpdateDefault(users, default_system_prompt,
                                   new_system_prompt)
         /\ default_system_prompt' = new_system_prompt
         /\ Returned("change_global_default_system_prompt",
                     Some(Cardinality({u \in DOMAIN users :
                                          users[u] = default_system_prompt})))
         /\ UNCHANGED <<is_open, messages, held_message, gen_params>>

GetUser(user_id) ==
    IF ~is_open THEN NotOpen("get_user")
    ELSE /\ Returned("get_user",
                     IF user_exists(users, user_id)
                     THEN Some(users[user_id]) ELSE None)
         /\ UNCHANGED <<is_open, default_system_prompt, users, messages,
                        held_message, gen_params>>

\* get_or_create_user(user_id, system_prompt): get_user, or add_user and
\* then get_user
GetOrCreateUserOverwrites(user_id, system_prompt) ==
    IF ~is_open THEN NotOpen("get_or_create_user")
    ELSE /\ users' = InsertUser(users, user_id,
                          IF IsNone(system_prompt)
                          THEN default_system_prompt
                          ELSE Value(system_prompt))
         /\ Returned("get_or_create_user", Some(users'[user_id]))
         /\ UNCHANGED <<is_open, default_system_prompt, messages,
                        held_message, gen_params>>

GetOrCreateUser(user_id, system_prompt) ==
    IF ~is_open THEN NotOpen("get_or_create_user")
    ELSE LET created == InsertUser(users, user_id,
                            IF IsNone(system_prompt)
                            THEN default_system_prompt
                            ELSE Value(system_prompt))
         IN  /\ users' = IF user_exists(users, user_id) THEN users ELSE created
             /\ Returned("get_or_create_user", Some(users'[user_id]))
             /\ UNCHANGED <<is_open, default_system_prompt, messages,
                            held_message, gen_params>>

\* add_user(user_id, system_prompt), system_prompt None or Some(p)
AddUser(user_id, system_prompt) ==
    IF ~is_open THEN NotOpen("add_user")
    ELSE /\ IF user_exists(users, user_id)
            THEN /\ Returned("add_user", Some(FALSE))
                 /\ UNCHANGED users
            ELSE /\ users' = InsertUser(users, user_id,
                                 IF IsNone(system_prompt)
                                 THEN default_system_prompt
                                 ELSE Value(system_prompt))
                 /\ Returned("add_user", Some(TRUE))
         /\ UNCHANGED <<is_open, default_system_prompt, messages, held_message, gen_params>>

DeleteUser(user_id) ==
    IF ~is_open THEN NotOpen("delete_user")
    ELSE /\ users' = RemoveUser(users, user_id)
         /\ messages' = Cascade(messages, user_id)
         /\ gen_params' = [gen_params EXCEPT ![user_id] = NoParameters]
         /\ Returned("delete_user", Some(user_exists(users, user_id)))
         /\ UNCHANGED <<is_open, default_system_prompt, held_message>>

UserExists(user_id) ==
    IF ~is_open THEN NotOpen("user_exists")
    ELSE /\ Returned("user_exists", Some(user_exists(users, user_id)))
         /\ UNCHANGED <<is_open, default_system_prompt, users, messages,
                        held_message, gen_params>>

ChangeUserSystemPrompt(user_id, new_system_prompt, create_user_if_not_found) ==
    IF ~is_open THEN NotOpen("change_user_system_prompt")
    ELSE IF ~user_exists(users, user_id)
    THEN IF create_user_if_not_found
         THEN /\ users' = InsertUser(users, user_id, new_system_prompt)
              /\ Returned("change_user_system_prompt", None)
              /\ UNCHANGED <<is_open, default_system_prompt, messages,
                             held_message, gen_params>>
         ELSE /\ Raised("change_user_system_prompt", "UserDoesNotExist")
              /\ UNCHANGED <<is_open, default_system_prompt, users, messages,
                             held_message, gen_params>>
    ELSE /\ users' = [users EXCEPT ![user_id] = new_system_prompt]
         /\ messages' = UpdateSystemMessages(messages, user_id,
                                             new_system_prompt)
         /\ Returned("change_user_system_prompt", None)
         /\ UNCHANGED <<is_open, default_system_prompt, held_message, gen_params>>

UserHasMessages(user_id) ==
    IF ~is_open THEN NotOpen("user_has_messages")
    ELSE /\ Returned("user_has_messages",
                     Some(UserRows(messages, user_id) # {}))
         /\ UNCHANGED <<is_open, default_system_prompt, users, messages,
                        held_message, gen_params>>

\* get_message(message_id); the caller keeps the Message object it gets
GetMessage(message_id) ==
    IF ~is_open THEN NotOpen("get_message")
    ELSE LET found == {r \in messages : r.id = message_id}
         IN  /\ IF found = {}
                THEN /\ Returned("get_message", None)
                     /\ UNCHANGED held_message
                ELSE \E r \in found :
                        /\ Returned("get_message", Some(r))
                        /\ held_message' = Some(MessageObject(r))
             /\ UNCHANGED <<is_open, default_system_prompt, users, messages,
                            gen_params>>

GetUserMessages(user_id) ==
    IF ~is_open THEN NotOpen("get_user_messages")
    ELSE /\ Returned("get_user_messages", Some(UserRows(messages, user_id)))
         /\ UNCHANGED <<is_open, default_system_prompt, users, messages,
                        held_message, gen_params>>

GetNthUserMessage(user_id, position) ==
    IF ~is_open THEN NotOpen("get_nth_user_message")
    ELSE LET found == {r \in UserRows(messages, user_id) :
                          r.position = position}
         IN  /\ IF found = {}
                THEN /\ Returned("get_nth_user_message", None)
                     /\ UNCHANGED held_message
                ELSE \E r \in found :
                        /\ Returned("get_nth_user_message", Some(r))
                        /\ held_message' = Some(MessageObject(r))
             /\ UNCHANGED <<is_open, default_system_prompt, users, messages,
                            gen_params>>

\* add_message(user_id, role, message, create_user_if_not_found); add_user
\* cannot fail for a user that does not exist
AddMessage(user_id, role, text, create_user_if_not_found) ==
    IF ~is_open THEN NotOpen("add_message")
    ELSE IF ~user_exists(users, user_id) /\ ~create_user_if_not_found
    THEN /\ Raised("add_message", "UserDoesNotExist")
         /\ UNCHANGED <<is_open, default_system_prompt, users, messages,
                        held_message, gen_params>>
    ELSE /\ users' = IF user_exists(users, user_id) THEN users
                     ELSE InsertUser(users, user_id, default_system_prompt)
         /\ messages' = InsertMessage(messages, user_id, role, text)
         /\ Returned("add_message", None)
         /\ UNCHANGED <<is_open, default_system_prompt, held_message, gen_params>>

\* delete_message(message) with a Message object the caller holds
DeleteMessage ==
    /\ ~IsNone(held_message)
    /\ IF ~is_open THEN NotOpen("delete_message")
       ELSE /\ messages' = delete_message(messages, Value(held_message))
            /\ Returned("delete_message", None)
            /\ UNCHANGED <<is_open, default_system_prompt, users,
                           held_message, gen_params>>

DeleteMessageById(message_id) ==
    IF ~is_open THEN NotOpen("delete_message_by_id")
    ELSE LET found == {r \in messages : r.id = message_id}
         IN  /\ IF found = {}
                THEN /\ Returned("delete_message_by_id", Some(FALSE))
                     /\ UNCHANGED messages
                ELSE \E r \in found :
                        /\ messages' = delete_message(messages, r)
                        /\ Returned("delete_message_by_id", Some(TRUE))
             /\ UNCHANGED <<is_open, default_system_prompt, users,
                            held_message, gen_params>>

DeleteUserMessageByPosition(user_id, position) ==
    IF ~is_open THEN NotOpen("delete_user_message_by_position")
    ELSE LET found == {r \in UserRows(messages, user_id) :
                          r.position = position}
         IN  /\ IF found = {}
                THEN /\ Returned("delete_user_message_by_position", Some(FALSE))
                     /\ UNCHANGED messages
                ELSE \E r \in found :
                        /\ messages' = delete_message(messages, r)
                        /\ Returned("delete_user_message_by_position",
                                    Some(TRUE))
             /\ UNCHANGED <<is_open, default_system_prompt, users,
                            held_message, gen_params>>

ClearUserMessages(user_id) ==
    IF ~is_open THEN NotOpen("clear_user_messages")
    ELSE /\ messages' = messages \ UserRows(messages, user_id)
         /\ Returned("clear_user_messages", None)
         /\ UNCHANGED <<is_open, default_system_prompt, users, held_message, gen_params>>

\* the parameter_type that set_user_generation_parameter passes on
ParameterType(parameter_name) ==
    CASE parameter_name = "temperature" -> "float"
      [] parameter_name = "top_k" -> "int"
      [] parameter_name = "penalize_nl" -> "bool"

\* parameter_type(parameter_raw_value) as stored by sqlite, or None where
\* Python raises ValueError: float and int parse the text, bool is true for
\* every text but the empty one and is stored as an int
Convert(parameter_type, parameter_raw_value) ==
    CASE parameter_type = "float" ->
             IF parameter_raw_value = "1" THEN Some("1.0")
             ELSE IF parameter_raw_value = "0.5" THEN Some("0.5")
             ELSE None
      [] parameter_type = "int" ->
             IF parameter_raw_value = "1" THEN Some("1") ELSE None
      [] parameter_type = "bool" ->
             IF parameter_raw_value = "" THEN Some("0") ELSE Some("1")

\* set_user_generation_parameter(user_id, parameter_name, parameter_raw_value,
\* create_user_if_not_found), with _set_user_gen_param: the user is created
\* before the parameter name is matched
SetUserGenerationParameter(user_id, parameter_name, parameter_raw_value, create_user_if_not_found) ==
    IF ~is_open THEN NotOpen("set_user_generation_parameter")
    ELSE IF ~user_exists(users, user_id) /\ ~create_user_if_not_found
    THEN /\ Raised("set_user_generation_parameter", "UserDoesNotExist")
         /\ UNCHANGED <<is_open, default_system_prompt, users, messages,
                        held_message, gen_params>>
    ELSE /\ users' = IF user_exists(users, user_id) THEN users
                     ELSE InsertUser(users, user_id, default_system_prompt)
         /\ IF parameter_name \notin ParameterNames
            THEN /\ Raised("set_user_generation_parameter", "ParameterSetError")
                 /\ UNCHANGED gen_params
            ELSE LET new_param_value ==
                         Convert(ParameterType(parameter_name),
                                 parameter_raw_value)
                 IN  IF IsNone(new_param_value)
                     THEN /\ Raised("set_user_generation_parameter",
                                    "ParameterSetError")
                          /\ UNCHANGED gen_params
                     ELSE /\ gen_params' =
                                 [gen_params EXCEPT
                                     ![user_id][parameter_name] = new_param_value]
                          /\ Returned("set_user_generation_parameter",
                                      Some(<<gen_params[user_id][parameter_name],
                                             new_param_value>>))
         /\ UNCHANGED <<is_open, default_system_prompt, messages, held_message>>

DbNext ==
    \/ Open
    \/ Close
    \/ \E p \in Prompts : ChangeGlobalDefaultSystemPrompt(p)
    \/ \E u \in DbUserIds : GetUser(u)
    \/ \E u \in DbUserIds, p \in {None} \cup {Some(q) : q \in Prompts} :
           AddUser(u, p)
    \/ \E u \in DbUserIds, p \in {None} \cup {Some(q) : q \in Prompts} :
           GetOrCreateUser(u, p)
    \/ \E u \in DbUserIds : DeleteUser(u)
    \/ \E u \in DbUserIds : UserExists(u)
    \/ \E u \in DbUserIds, p \in Prompts, create \in BOOLEAN :
           ChangeUserSystemPrompt(u, p, create)
    \/ \E u \in DbUserIds : UserHasMessages(u)
    \/ \E id \in MessageIds : GetMessage(id)
    \/ \E u \in DbUserIds : GetUserMessages(u)
    \/ \E u \in DbUserIds, pos \in Positions : GetNthUserMessage(u, pos)
    \/ /\ Cardinality(messages) < MaxDbMessages
       /\ NextRowId(messages) <= MaxDbMessages
       /\ \E u \in DbUserIds, role \in DbRoles, text \in Texts,
             create \in BOOLEAN :
              AddMessage(u, role, text, create)
    \/ DeleteMessage
    \/ \E id \in MessageIds : DeleteMessageById(id)
    \/ \E u \in DbUserIds, pos \in Positions : DeleteUserMessageByPosition(u, pos)
    \/ \E u \in DbUserIds : ClearUserMessages(u)
    \/ \E u \in DbUserIds, create \in BOOLEAN :
           SetUserGenerationParameter(u, "samplers", "", create)

DbStep ==
    /\ DbNext
    /\ UNCHANGED <<split_vars, stream_vars, bot_vars, chain_vars, admin_vars,
                   ext_vars>>

DbSpec == DbInit /\ [][DbStep]_vars

(***************************************************************************)
(* MsgSpec: a BotDatabase constructed with a database path, which opens    *)
(* it, and a caller that stores, fetches and deletes messages.             *)
(***************************************************************************)
MsgInit ==
    /\ arg_message = <<>>
    /\ arg_threshold = 1
    /\ ret = None
    /\ message_length = 1
    /\ StreamIdle
    /\ BotIdle
    /\ ChainIdle
    /\ AdminIdle
    /\ ExtIdle
    /\ is_open = TRUE
    /\ default_system_prompt = ""
    /\ users = <<>>
    /\ messages = {}
    /\ held_message = None
    /\ gen_params = [u \in 1..MaxDbUsers |-> NoParameters]
    /\ db_op = "open"
    /\ db_result = None
    /\ db_raised = None

MsgNext ==
    \/ /\ Cardinality(messages) < MaxMessages
       /\ NextRowId(messages) <= MaxMessageId
       /\ \E u \in DbUserIds, role \in Roles, text \in Texts,
             create \in BOOLEAN :
              AddMessage(u, role, text, create)
    \/ \E id \in MessageIds : GetMessage(id)
    \/ DeleteMessage
    \/ \E id \in MessageIds : DeleteMessageById(id)
    \/ \E u \in DbUserIds, pos \in Positions : DeleteUserMessageByPosition(u, pos)
    \/ \E u \in DbUserIds : ClearUserMessages(u)

MsgStep ==
    /\ MsgNext
    /\ UNCHANGED <<split_vars, stream_vars, bot_vars, chain_vars, admin_vars,
                   ext_vars>>

MsgSpec == MsgInit /\ [][MsgStep]_vars

(***************************************************************************)
(* ParamSpec: a BotDatabase constructed with a database path, and a caller *)
(* that sets generation parameters and deletes users.                      *)
(***************************************************************************)
ParameterInputs == ParameterNames \cup {"samplers", "bogus"}
RawValues == {"1", "0.5", "abc", ""}

ParamNext ==
    \/ \E u \in DbUserIds, name \in ParameterInputs, raw \in RawValues,
          create \in BOOLEAN :
           SetUserGenerationParameter(u, name, raw, create)
    \/ \E u \in DbUserIds : DeleteUser(u)

ParamStep ==
    /\ ParamNext
    /\ UNCHANGED <<split_vars, stream_vars, bot_vars, chain_vars, admin_vars,
                   ext_vars>>

ParamSpec == MsgInit /\ [][ParamStep]_vars

(***************************************************************************)
(* OverlapSpec and SessionSpec: calls of process_message for one user, as  *)
(* the tasks that on_message starts; every call gets a response that ends  *)
(* with a stop chunk.  db_messages is the stored history of the user.  In  *)
(* OverlapSpec a call may start while another one is streaming; in         *)
(* SessionSpec it may not, and the user may reset the conversation at any  *)
(* time.                                                                   *)
(***************************************************************************)
CallIds == 1..MaxCalls

\* the response of the model to the message of a user
AnswerTo(text) == text \o <<DOT>>

\* no call of process_message is in progress
Quiescent == \A c \in CallIds : tasks[c].pc = "idle"

OverlapInit ==
    /\ arg_message = <<>>
    /\ arg_threshold = 1
    /\ ret = None
    /\ message_length = 1
    /\ StreamIdle
    /\ BotIdle
    /\ ChainIdle
    /\ AdminIdle
    /\ DbIdle
    /\ ExtIdle

\* process_message up to the first await: the system prompt is stored for a
\* user without messages, then the user's message
TaskStart(c, text) ==
    /\ tasks[c].pc = "idle"
    /\ Len(db_messages) + 3 <= MaxHistory
    /\ db_messages' =
           add_message(IF user_has_messages(db_messages) THEN db_messages
                       ELSE add_message(db_messages, SYSTEM, SystemPrompt),
                       USER, text)
    /\ tasks' = [tasks EXCEPT ![c] = [pc |-> "streaming",
                                      message |-> Some(text),
                                      full_response |-> None]]

\* the event with end_of_response passes through the loop of the call
TaskRespond(c) ==
    /\ tasks[c].pc = "streaming"
    /\ IsNone(tasks[c].full_response)
    /\ tasks' = [tasks EXCEPT
                    ![c].full_response = Some(AnswerTo(Value(tasks[c].message)))]
    /\ UNCHANGED db_messages

\* the generator is exhausted: the call stores full_response and returns
TaskStore(c) ==
    /\ tasks[c].pc = "streaming"
    /\ ~IsNone(tasks[c].full_response)
    /\ db_messages' = add_message(db_messages, BOT,
                                  Value(tasks[c].full_response))
    /\ tasks' = [tasks EXCEPT ![c] = TaskIdle]

\* process_reset_conversation_command: db.clear_user_messages(user_id)
ResetConversation ==
    /\ db_messages' = <<>>
    /\ UNCHANGED tasks

TaskFrame ==
    UNCHANGED <<split_vars, stream_vars, user_message, full_response, bot_pc,
                bot_raised, db_at_call, chain_vars, admin_vars, db_vars,
                react_vars, render_vars>>

OverlapNext ==
    \/ \E c \in CallIds, text \in UserMessages : TaskStart(c, text) /\ TaskFrame
    \/ \E c \in CallIds : TaskRespond(c) /\ TaskFrame
    \/ \E c \in CallIds : TaskStore(c) /\ TaskFrame

OverlapSpec == OverlapInit /\ [][OverlapNext]_vars

SessionNext ==
    \/ /\ Quiescent
       /\ \E c \in CallIds, text \in UserMessages : TaskStart(c, text)
       /\ TaskFrame
    \/ \E c \in CallIds : TaskRespond(c) /\ TaskFrame
    \/ \E c \in CallIds : TaskStore(c) /\ TaskFrame
    \/ ResetConversation /\ TaskFrame

SessionSpec == OverlapInit /\ [][SessionNext]_vars

(***************************************************************************)
(* PromptSpec: the bot on its database, and a sequence of whole calls of   *)
(* process_message, change_user_system_prompt and                          *)
(* change_global_default_system_prompt.                                    *)
(***************************************************************************)
\* process_message(message, user_id) from its first line to its last, on the
\* tables: get_or_create_user, the SYSTEM message of a user without messages,
\* the USER message, and the BOT message after the stream
StoreConversation(user_id, text, answer) ==
    /\ is_open
    /\ LET table == IF user_exists(users, user_id) THEN users
                    ELSE InsertUser(users, user_id, default_system_prompt)
           with_system ==
               IF UserRows(messages, user_id) # {} THEN messages
               ELSE InsertMessage(messages, user_id, SYSTEM, table[user_id])
           with_user == InsertMessage(with_system, user_id, USER, text)
       IN  /\ users' = table
           /\ messages' = InsertMessage(with_user, user_id, BOT, answer)
    /\ Returned("add_message", None)
    /\ UNCHANGED <<is_open, default_system_prompt, held_message, gen_params>>

PromptNext ==
    \/ /\ Cardinality(messages) + 3 <= MaxStored
       /\ \E u \in DbUserIds, text \in Texts, answer \in Texts :
              StoreConversation(u, text, answer)
    \/ \E u \in DbUserIds, p \in Prompts, create \in BOOLEAN :
           ChangeUserSystemPrompt(u, p, create)
    \/ \E p \in Prompts : ChangeGlobalDefaultSystemPrompt(p)

PromptStep ==
    /\ PromptNext
    /\ UNCHANGED <<split_vars, stream_vars, bot_vars, chain_vars, admin_vars,
                   ext_vars>>

PromptSpec == MsgInit /\ [][PromptStep]_vars

(***************************************************************************)
(* ReactSpec: the client after construction, the messages of the bot and   *)
(* of a member in channels of two kinds, the reactions on them, and the    *)
(* handler of the reaction events the gateway sends.                       *)
(***************************************************************************)
BotAccount == "bot"
MemberAccount == "member"
\* config.message_removal_reaction and another emoji
message_removal_reaction == "X"
Emojis == {message_removal_reaction, "U"}
\* the channel classes fetch_channel returns: the ones the handler accepts
\* are TextChannel, DMChannel, GroupChannel and Thread
ChannelKinds == {"TextChannel", "VoiceChannel"}
DeletableChannels == {"TextChannel", "DMChannel", "GroupChannel", "Thread"}

\* should_reaction_be_handled(event)
HandlesOwnReactions(event) ==
    IF ~IsNone(client_user)
    THEN event.message_author_id = Value(client_user)
    ELSE FALSE

should_reaction_be_handled(event) ==
    IF ~IsNone(client_user)
    THEN LET message_is_from_bot == event.message_author_id = Value(client_user)
             reaction_was_added_by_bot == event.user_id = Value(client_user)
         IN  message_is_from_bot /\ ~reaction_was_added_by_bot
    ELSE FALSE

\* the str(event.emoji) == message_removal_reaction test of the handler
IsRemovalReaction(emoji) == emoji = message_removal_reaction

\* login(): the client learns its own user
Login ==
    /\ IsNone(client_user)
    /\ client_user' = Some(BotAccount)
    /\ UNCHANGED <<posts, pending_reactions, removed>>

\* bot_reply: the reply of the bot and its add_reaction, of which the
\* gateway sends the event back to the client
BotReplyReaction(channel) ==
    /\ ~IsNone(client_user)
    /\ Len(posts) < MaxPosts
    /\ Len(pending_reactions) < MaxPending
    /\ posts' = Append(posts, [author_id |-> BotAccount, channel |-> channel,
                               live |-> TRUE])
    /\ pending_reactions' =
           Append(pending_reactions,
                  [message_id |-> Len(posts) + 1,
                   message_author_id |-> BotAccount,
                   user_id |-> BotAccount,
                   emoji |-> message_removal_reaction])
    /\ UNCHANGED <<client_user, removed>>

\* a member sends a message
MemberPost(channel) ==
    /\ Len(posts) < MaxPosts
    /\ posts' = Append(posts, [author_id |-> MemberAccount,
                               channel |-> channel, live |-> TRUE])
    /\ UNCHANGED <<client_user, pending_reactions, removed>>

\* a member reacts to a message while the client is connected
MemberReact(message_id, emoji) ==
    /\ ~IsNone(client_user)
    /\ message_id \in 1..Len(posts)
    /\ posts[message_id].live
    /\ Len(pending_reactions) < MaxPending
    /\ pending_reactions' =
           Append(pending_reactions,
                  [message_id |-> message_id,
                   message_author_id |-> posts[message_id].author_id,
                   user_id |-> MemberAccount,
                   emoji |-> emoji])
    /\ UNCHANGED <<client_user, posts, removed>>

\* on_raw_reaction_add(event) for one of the events not handled yet;
\* fetch_message raises NotFound for a message that was deleted meanwhile
OnRawReactionAdd(i) ==
    /\ i \in 1..Len(pending_reactions)
    /\ LET event == pending_reactions[i]
       IN  /\ pending_reactions' =
                  SubSeq(pending_reactions, 1, i - 1)
                      \o SubSeq(pending_reactions, i + 1, Len(pending_reactions))
           /\ IF /\ should_reaction_be_handled(event)
                 /\ IsRemovalReaction(event.emoji)
                 /\ posts[event.message_id].channel \in DeletableChannels
                 /\ posts[event.message_id].live
              THEN /\ posts' = [posts EXCEPT ![event.message_id].live = FALSE]
                   /\ removed' = removed \cup {event}
              ELSE UNCHANGED <<posts, removed>>
    /\ UNCHANGED client_user

ReactFrame ==
    UNCHANGED <<split_vars, stream_vars, bot_vars, chain_vars, admin_vars,
                db_vars, tasks, render_vars>>

ReactNext ==
    \/ Login /\ ReactFrame
    \/ \E channel \in ChannelKinds : BotReplyReaction(channel) /\ ReactFrame
    \/ \E channel \in ChannelKinds : MemberPost(channel) /\ ReactFrame
    \/ \E m \in 1..MaxPosts, emoji \in Emojis : MemberReact(m, emoji) /\ ReactFrame
    \/ \E i \in 1..MaxPending : OnRawReactionAdd(i) /\ ReactFrame

ReactSpec == OverlapInit /\ [][ReactNext]_vars

(***************************************************************************)
(* RenderSpec: one call of process_inference_command(message, prompt) on   *)
(* the events of one run of get_buffered_llm_response, which process_message *)
(* passes on unchanged.                                                    *)
(***************************************************************************)
\* "*Generating response, please wait...*"
Placeholder == <<"*">>
\* the usage text of the command
Usage == <<"?">>

\* len(chunk.message.strip()) > 0
HasText(s) == Len(RStrip(s)) > 0

\* the condition of the edit of an event that opens no new message;
\* cooldown_elapsed: current_time_ms() - last_update_time >= message_edit_cooldown
ShouldEdit(event, cooldown_elapsed) ==
    HasText(event.message) /\ (event.end_of_message \/ cooldown_elapsed)

\* reply_message.edit(content=...)
Edited(chain, content) == [chain EXCEPT ![Len(chain)] = content]

\* the prompt is None: the usage text is the only reply
InferenceUsage ==
    /\ render_pc = "idle"
    /\ pc = "await"
    /\ events = <<>>
    /\ reply_chain' = <<Usage>>
    /\ render_pc' = "usage"
    /\ UNCHANGED rendered

\* the placeholder reply, before the loop
InferenceStart ==
    /\ render_pc = "idle"
    /\ reply_chain' = <<Placeholder>>
    /\ render_pc' = "loop"
    /\ UNCHANGED rendered

\* One pass of the loop, for the next event.  Discord may refuse content
\* without text (accepted = FALSE); bot_reply or edit then raises
\* HTTPException out of the command.
RenderChunk(cooldown_elapsed, accepted) ==
    /\ render_pc = "loop"
    /\ rendered < Len(events)
    /\ accepted \/ ~HasText(events[rendered + 1].message)
    /\ LET event == events[rendered + 1]
           sends == event.new_message \/ event.end_of_response
           after_first ==
               IF event.new_message THEN Append(reply_chain, event.message)
               ELSE IF ShouldEdit(event, cooldown_elapsed)
               THEN Edited(reply_chain, event.message)
               ELSE reply_chain
       IN  IF sends /\ ~accepted
           THEN /\ render_pc' = "raised"
                /\ UNCHANGED <<reply_chain, rendered>>
           ELSE /\ reply_chain' = IF event.end_of_response
                                  THEN Edited(after_first, event.message)
                                  ELSE after_first
                /\ rendered' = rendered + 1
                /\ UNCHANGED render_pc

\* the generator is exhausted: the loop and the command end
InferenceFinish ==
    /\ render_pc = "loop"
    /\ pc = "done"
    /\ rendered = Len(events)
    /\ render_pc' = "done"
    /\ UNCHANGED <<reply_chain, rendered>>

\* the generator runs only while the loop of the command waits for its
\* next event
LoopAsksForNext ==
    /\ render_pc = "loop"
    /\ rendered = Len(events)

RenderFrame ==
    UNCHANGED <<split_vars, stream_vars, bot_vars, chain_vars, admin_vars,
                db_vars, tasks, react_vars>>

StreamFrame ==
    UNCHANGED <<bot_vars, chain_vars, admin_vars, db_vars, ext_vars>>

RenderNext ==
    \/ \E content \in Strings(MaxChunk), stop \in BOOLEAN :
           /\ LoopAsksForNext
           /\ Consume(content, stop)
           /\ StreamFrame
    \/ LoopAsksForNext /\ YieldNext /\ StreamFrame
    \/ LoopAsksForNext /\ Finish /\ StreamFrame
    \/ InferenceUsage /\ RenderFrame
    \/ InferenceStart /\ RenderFrame
    \/ \E cooldown_elapsed \in BOOLEAN, accepted \in BOOLEAN :
           RenderChunk(cooldown_elapsed, accepted) /\ RenderFrame
    \/ InferenceFinish /\ RenderFrame

RenderSpec == Init /\ [][RenderNext]_vars

(***************************************************************************)
(* Properties of split_message, checked under SplitSpec.                   *)
(***************************************************************************)
Called == ~IsNone(ret)
Out == Value(ret)
Splits == Called /\ Len(arg_message) >= arg_threshold

\* the parts of the result that are text of the message: the result without
\* the closing fence appended to first and the opening line put before second
Rebalanced == Splits /\ Unclosed(RefinedFirst(arg_message, arg_threshold))
OpeningLine == StartingMarker(RefinedFirst(arg_message, arg_threshold)) \o <<NL>>
EndsWith(s, suffix) ==
    /\ Len(s) >= Len(suffix)
    /\ SubSeq(s, Len(s) - Len(suffix) + 1, Len(s)) = suffix
StartsWith(s, prefix) ==
    /\ Len(s) >= Len(prefix)
    /\ SubSeq(s, 1, Len(prefix)) = prefix
StrippedFirst ==
    IF Rebalanced
    THEN SubSeq(Out.first, 1, Len(Out.first) - Len(ClosingText))
    ELSE Out.first
StrippedSecond ==
    IF Rebalanced
    THEN SubSeq(Value(Out.second), Len(OpeningLine) + 1, Len(Value(Out.second)))
    ELSE Value(Out.second)
FenceTextInserted ==
    Rebalanced => /\ EndsWith(Out.first, ClosingText)
                  /\ StartsWith(Value(Out.second), OpeningLine)

\* C1 as stated: first and second without the inserted fence text give back
\* the message exactly, the separator at the split point included.
C1_LosslessExact ==
    Splits => /\ FenceTextInserted
              /\ StrippedFirst \o StrippedSecond = arg_message

\* C1 amended: first and second without the inserted fence text give back the
\* message exactly when no boundary marker was used, and the message without
\* the one whitespace character of the marker (the newline, or the space of
\* ". " or " ") at the split point when one was used.
C1_LosslessUpToSeparator ==
    Splits =>
        /\ FenceTextInserted
        /\ IF IsNone(Occurence(arg_message, arg_threshold))
           THEN StrippedFirst \o StrippedSecond = arg_message
           ELSE \E w \in Whitespace :
                    StrippedFirst \o <<w>> \o StrippedSecond = arg_message

C1_Witness ==
    /\ Splits
    /\ Rebalanced
    /\ ~IsNone(Occurence(arg_message, arg_threshold))
    /\ Value(Occurence(arg_message, arg_threshold)).separator = <<DOT, SP>>
    /\ StrippedFirst \o <<SP>> \o StrippedSecond = arg_message

\* C3: a message with an even number of fence markers is split into two
\* parts that each hold an even number of fence markers.
C3_FenceBalance ==
    (Splits /\ Count(arg_message, Fence) % 2 = 0) =>
        /\ Count(Out.first, Fence) % 2 = 0
        /\ Count(Value(Out.second), Fence) % 2 = 0

\* C4: first is at most threshold characters long, and at most threshold
\* plus the four characters of the closing fence when one was appended.
C4_LengthBound ==
    Called =>
        Len(Out.first) <= arg_threshold
                          + (IF Rebalanced THEN Len(ClosingText) ELSE 0)

C4_Witness ==
    /\ Rebalanced
    /\ Len(Out.first) = arg_threshold + 4

\* the language tag of C6: the text after the last fence marker of the first
\* part, up to the next newline or to the end of the part
RECURSIVE UpToNewline(_)
UpToNewline(s) ==
    IF s = <<>> \/ Head(s) = NL THEN <<>> ELSE <<Head(s)>> \o UpToNewline(Tail(s))
LanguageTag(first_message) ==
    UpToNewline(SliceFrom(first_message, RFind(first_message, Fence) + 3))

\* C6: when the first part holds an odd number of fence markers, first ends
\* with a closing fence and second is an opening fence, the language tag that
\* follows the last marker of first, a newline, and the remainder.
C6_LanguageTagRepeated ==
    Rebalanced =>
        /\ Out.first = RefinedFirst(arg_message, arg_threshold) \o <<NL>> \o Fence
        /\ Value(Out.second) =
               Fence \o LanguageTag(RefinedFirst(arg_message, arg_threshold))
               \o <<NL>> \o RefinedSecond(arg_message, arg_threshold)

\* the cut C7 describes, computed from the hard cut head = s[:limit]
C7_Head == SubSeq(arg_message, 1, arg_threshold)
C7_Newlines == {p \in 1..(Len(C7_Head) - 1) : C7_Head[p + 1] = NL}
C7_Sentences ==
    {p \in 1..(Len(C7_Head) - 2) : C7_Head[p + 1] = DOT /\ C7_Head[p + 2] = SP}
C7_Spaces == {p \in 1..(Len(C7_Head) - 1) : C7_Head[p + 1] = SP}
\* <<length of first, offset of the message at which second starts>>
C7_Cut ==
    IF C7_Newlines # {} THEN <<Max(C7_Newlines), Max(C7_Newlines) + 1>>
    ELSE IF C7_Sentences # {}
         THEN <<Max(C7_Sentences) + 1, Max(C7_Sentences) + 2>>
    ELSE IF C7_Spaces # {} THEN <<Max(C7_Spaces), Max(C7_Spaces) + 1>>
    ELSE <<arg_threshold, arg_threshold>>
C7_First == SubSeq(arg_message, 1, C7_Cut[1])
C7_Second == SubSeq(arg_message, C7_Cut[2] + 1, Len(arg_message))

\* C7: the cut is refined by priority (last newline, else last ". ", else
\* last space, each at an offset > 0, else the hard cut), and what follows
\* the marker in head goes to the front of second.
C7_BoundaryPriority ==
    Splits =>
        /\ \/ Out.first = C7_First
           \/ Out.first = C7_First \o ClosingText
        /\ EndsWith(Value(Out.second), C7_Second)
        /\ \/ Value(Out.second) = C7_Second
           \/ /\ StartsWith(Value(Out.second), Fence)
              /\ Value(Out.second)[Len(Value(Out.second)) - Len(C7_Second)] = NL

C7_Witness ==
    /\ Splits
    /\ C7_Newlines = {}
    /\ C7_Sentences # {}
    /\ C7_Spaces # {}
    /\ Max(C7_Spaces) > Max(C7_Sentences) + 1
    /\ Out.first = C7_First
    /\ Len(C7_Second) > Len(arg_message) - arg_threshold

\* C8: a message shorter than the threshold is returned unchanged, with no
\* second part.
C8_NoSplitBelowThreshold ==
    (Called /\ Len(arg_message) < arg_threshold) =>
        Out = [first |-> arg_message, second |-> None]

C8_Witness ==
    /\ Called
    /\ Len(arg_message) = arg_threshold - 1
    /\ Unclosed(arg_message)
    /\ Out.first = arg_message
    /\ IsNone(Out.second)

\* the offset in head = s[:limit] of the last occurrence of the k-th marker
C15_LastAt(k) == RFind(C7_Head, Separators[k])

\* the marker located in head, the one of highest priority that occurs in it,
\* lies at offset 0
C15_LocatedAtStart ==
    \E k \in 1..Len(Separators) :
        /\ C15_LastAt(k) = 0
        /\ \A j \in 1..(k - 1) : C15_LastAt(j) = -1

\* the markers other than the k-th whose last occurrence is at an offset > 0
C15_Others(k) == {j \in 1..Len(Separators) : j # k /\ C15_LastAt(j) > 0}

\* the length of first when the cut is made at the j-th marker
C15_FirstLen(j) ==
    IF Separators[j] = <<DOT, SP>> THEN C15_LastAt(j) + 1 ELSE C15_LastAt(j)

\* C15 as stated: when the marker located in head lies at offset 0 the hard
\* cut is kept, and first is never empty.
C15_HardCutWhenMarkerAtStart ==
    (Splits /\ C15_LocatedAtStart) =>
        /\ StrippedFirst = C7_Head
        /\ Out.first # <<>>

\* C15 amended: a marker whose last occurrence in head is at offset 0 is
\* passed over; the cut is made at the marker of highest priority among the
\* others that occur at an offset > 0, the hard cut is kept only when there
\* is none, and first is never empty.
C15_MarkerAtStartSkipped ==
    Splits =>
        /\ Out.first # <<>>
        /\ \A k \in 1..Len(Separators) :
               C15_LastAt(k) = 0 =>
                   IF C15_Others(k) = {}
                   THEN /\ StrippedFirst = C7_Head
                        /\ StrippedSecond =
                               SubSeq(arg_message, arg_threshold + 1, Len(arg_message))
                   ELSE StrippedFirst =
                            SubSeq(C7_Head, 1, C15_FirstLen(Min(C15_Others(k))))

C15_Witness ==
    /\ Splits
    /\ C15_LocatedAtStart
    /\ C15_LastAt(1) = 0
    /\ C15_LastAt(3) > 0
    /\ StrippedFirst # C7_Head
    /\ Len(Out.first) = C15_LastAt(3)

\* head = s[:limit] holds no newline, no space and no fence marker
C16_NoMarkerInHead ==
    /\ \A p \in 1..Len(C7_Head) : C7_Head[p] \notin {NL, SP}
    /\ \A p \in 1..(Len(C7_Head) - 2) : SubSeq(C7_Head, p, p + 2) # Fence

\* C16: a message at least as long as the limit whose first limit characters
\* hold no newline, no space and no fence marker is cut at the limit: the
\* result is exactly (s[:limit], s[limit:]), second present even when empty.
C16_HardCutWithoutMarkers ==
    (Called /\ Len(arg_message) >= arg_threshold /\ C16_NoMarkerInHead) =>
        Out = [first |-> C7_Head,
               second |-> Some(SubSeq(arg_message, arg_threshold + 1,
                                      Len(arg_message)))]

C16_Witness ==
    /\ Called
    /\ Len(arg_message) = arg_threshold
    /\ arg_threshold >= 4
    /\ C16_NoMarkerInHead
    /\ DOT \in {arg_message[p] : p \in 1..Len(arg_message)}
    /\ BT \in {arg_message[p] : p \in 1..Len(arg_message)}
    /\ Out.first = arg_message
    /\ Out.second = Some(<<>>)

\* a Python str of the alphabet
IsString(s) ==
    /\ DOMAIN s = 1..Len(s)
    /\ \A p \in 1..Len(s) : s[p] \in Chars

\* C22: for every message and every threshold >= 0 the call returns, and
\* what it returns is a pair of a string and either None or a string, the
\* second part being present exactly when the message is not shorter than the
\* threshold.
C22_AlwaysReturnsPair ==
    Called =>
        /\ DOMAIN Out = {"first", "second"}
        /\ IsString(Out.first)
        /\ IsNone(Out.second) <=> Len(arg_message) < arg_threshold
        /\ ~IsNone(Out.second) => IsString(Value(Out.second))

C22_WitnessThresholdZero ==
    /\ Called
    /\ arg_threshold = 0
    /\ arg_message = <<SP, NL>>
    /\ Out.first = <<>>
    /\ Out.second = Some(arg_message)

C22_Witness ==
    /\ Called
    /\ arg_threshold = Len(arg_message)
    /\ Unclosed(arg_message)
    /\ NL \notin {arg_message[p] : p \in 1..Len(arg_message)}
    /\ ~IsNone(Out.second)

(***************************************************************************)
(* Properties of get_buffered_llm_response, checked under Spec.            *)
(***************************************************************************)
\* the generator is suspended between two chunks, or has returned
ChunkProcessed == pc # "yield_next" /\ events # <<>>

\* the characters of text that are chunk text, the inserted ones left out
RECURSIVE SourceText(_, _)
SourceText(text, flags) ==
    IF text = <<>> THEN <<>>
    ELSE (IF Head(flags) THEN <<Head(text)>> ELSE <<>>)
         \o SourceText(Tail(text), Tail(flags))

\* the chunk text of every closed message, in emission order, and then of the
\* latest message of the open one
RECURSIVE SegmentsFrom(_)
SegmentsFrom(i) ==
    IF i > Len(events) THEN <<>>
    ELSE (IF events[i].end_of_message \/ i = Len(events)
          THEN <<SourceText(events[i].message, event_source[i])>>
          ELSE <<>>)
         \o SegmentsFrom(i + 1)
Segments == SegmentsFrom(1)

RECURSIVE Concat(_)
Concat(ss) == IF ss = <<>> THEN <<>> ELSE Head(ss) \o Concat(Tail(ss))

\* text from offset pos on is the segments from the j-th on, in order, with at
\* most one whitespace character of text left out after each closed segment
RECURSIVE Reassembles(_, _, _, _)
Reassembles(text, pos, segs, j) ==
    IF j > Len(segs) THEN pos = Len(text)
    ELSE LET end == pos + Len(segs[j])
         IN  /\ end <= Len(text)
             /\ SubSeq(text, pos + 1, end) = segs[j]
             /\ \/ Reassembles(text, end, segs, j + 1)
                \/ /\ j < Len(segs)
                   /\ end + 1 <= Len(text)
                   /\ text[end + 1] \in Whitespace
                   /\ Reassembles(text, end + 1, segs, j + 1)

\* C2 as stated: after every chunk, the closed messages and the open message,
\* without the inserted fence lines, concatenate to the response so far.
C2_ReconstructsExactly ==
    ChunkProcessed => Concat(Segments) = Last(events).response

\* C2 amended: they concatenate to the response so far except for the one
\* whitespace character of the boundary marker that each split may drop.
C2_ReconstructsUpToSeparators ==
    ChunkProcessed =>
        /\ Last(events).response = response
        /\ \A i \in 1..Len(events) : Len(event_source[i]) = Len(events[i].message)
        /\ Reassembles(response, 0, Segments, 1)

C2_Witness ==
    /\ ChunkProcessed
    /\ Len(Segments) >= 3
    /\ Len(Concat(Segments)) < Len(response)
    /\ \E i \in 1..Len(events) : FALSE \in {event_source[i][k] : k \in 1..Len(event_source[i])}

\* C5: once a chunk has been processed the open message is shorter than
\* message_length, and so is every message emitted for an open segment.
C5_OpenMessageBelowLimit ==
    ChunkProcessed =>
        /\ Len(message) < message_length
        /\ \A i \in 1..Len(events) :
               ~events[i].end_of_message => Len(events[i].message) < message_length

\* the events of the open segment: the k-th one belongs to the k-th chunk
OpenEvents == SelectSeq(events, LAMBDA e : ~IsNone(e.chunk))

\* C9 as stated: the event of the open segment has end_of_message equal to
\* the stop flag of its chunk.
C9_EndOfMessageIsStop ==
    \A k \in 1..Len(OpenEvents) :
        /\ k <= Len(chunks)
        /\ OpenEvents[k].end_of_message = chunks[k].stop

\* C9 amended: the event of the open segment has end_of_message false whatever
\* the stop flag of its chunk is, and end_of_response equal to that flag.
C9_EndOfMessageNeverOnOpen ==
    \A k \in 1..Len(OpenEvents) :
        /\ k <= Len(chunks)
        /\ OpenEvents[k].chunk = Some(chunks[k].content)
        /\ OpenEvents[k].end_of_message = FALSE
        /\ OpenEvents[k].end_of_response = chunks[k].stop

C9_Witness ==
    /\ pc = "done"
    /\ Last(chunks).stop
    /\ Last(events).end_of_response
    /\ ~Last(events).end_of_message
    /\ Last(events).new_message

\* C10: when the stream has ended and its last chunk, and only that one, was
\* marked stop, exactly one event has end_of_response and it is the last one.
OnlyLastChunkStops ==
    /\ chunks # <<>>
    /\ \A k \in 1..Len(chunks) : chunks[k].stop <=> k = Len(chunks)

C10_OneFinalEventLast ==
    (pc = "done" /\ OnlyLastChunkStops) =>
        /\ events # <<>>
        /\ {i \in 1..Len(events) : events[i].end_of_response} = {Len(events)}

C10_Witness ==
    /\ pc = "done"
    /\ OnlyLastChunkStops
    /\ Len(events) >= 3
    /\ events[Len(events) - 1].end_of_message
    /\ Last(events).new_message
    /\ Last(events).end_of_response
    /\ Len(chunks) >= 2

\* what the loop body yields first for a buffer that split_message cuts
C12_Closing ==
    [message |-> split_message(message', message_length).first,
     chunk |-> None,
     response |-> response',
     end_of_message |-> TRUE,
     end_of_response |-> FALSE,
     new_message |-> FALSE]

\* and what it yields second
C12_Opening ==
    [message |-> Value(split_message(message, message_length).second),
     chunk |-> Some(Last(chunks).content),
     response |-> response,
     end_of_message |-> FALSE,
     end_of_response |-> Last(chunks).stop,
     new_message |-> TRUE]

C12_ChunkStep ==
    chunks' # chunks =>
        /\ pc = "await"
        /\ Len(events') = Len(events) + 1
        /\ IF IsNone(split_message(message', message_length).second)
           THEN /\ pc' = "await"
                /\ ~Last(events').end_of_message
                /\ ~Last(events').new_message
           ELSE /\ pc' = "yield_next"
                /\ events' = Append(events, C12_Closing)

C12_SecondStep ==
    pc = "yield_next" =>
        /\ chunks' = chunks
        /\ pc' = "await"
        /\ events' = Append(events, C12_Opening)

C12_NewOnlyAfterClose ==
    /\ \A i \in 1..Len(events) :
           events[i].new_message <=> (i > 1 /\ events[i - 1].end_of_message)
    /\ (events # <<>> /\ Last(events).end_of_message) <=> pc = "yield_next"

\* C12: a chunk that makes split_message return a second part is followed by
\* exactly two events, the closing one (message = first, no chunk,
\* end_of_message) and then the opening one (message = second, the chunk,
\* end_of_response = chunk.stop, new_message); new_message is true on no other
\* event, so never on the first one and always directly after a closing event.
C12_CloseThenOpen ==
    /\ []C12_NewOnlyAfterClose
    /\ [][C12_ChunkStep /\ C12_SecondStep]_vars

C12_Witness ==
    /\ pc = "await"
    /\ Len(chunks) = 2
    /\ Len(events) = 4
    /\ events[1].end_of_message /\ events[2].new_message
    /\ events[3].end_of_message /\ events[4].new_message
    /\ events[4].end_of_response
    /\ events[2].message # events[4].message

\* the chunk that the i-th event was emitted for
ChunkOf(i) ==
    Cardinality({j \in 1..i : ~IsNone(events[j].chunk)})
    + (IF IsNone(events[i].chunk) THEN 1 ELSE 0)

\* the contents of the first k chunks, concatenated
ContentsUpTo(k) == Concat([j \in 1..k |-> chunks[j].content])

IsPrefix(s, t) == Len(s) <= Len(t) /\ SubSeq(t, 1, Len(s)) = s

\* C13: the response of every event is the concatenation of the contents of
\* the chunks consumed up to it, each response is a prefix of the next, and
\* the response of the last event of a finished stream is the concatenation
\* of all chunk contents, whatever the chunking and the limit.
C13_ResponseAccumulates ==
    /\ \A i \in 1..Len(events) :
           /\ ChunkOf(i) <= Len(chunks)
           /\ events[i].response = ContentsUpTo(ChunkOf(i))
    /\ \A i \in 1..(Len(events) - 1) :
           IsPrefix(events[i].response, events[i + 1].response)
    /\ pc = "done" => Last(events).response = ContentsUpTo(Len(chunks))

C13_Witness ==
    /\ pc = "done"
    /\ Len(chunks) = 3
    /\ \A k \in 1..3 : chunks[k].content # <<>>
    /\ \E i \in 1..Len(events) : events[i].end_of_message
    /\ Last(events).message # Last(events).response
    /\ events[1].response # Last(events).response

\* the chunk fields of the events that have one, in emission order
ChunkFields == [k \in 1..Len(OpenEvents) |-> Value(OpenEvents[k].chunk)]

\* the contents of the chunks the transport has delivered, in order
ChunkContents == [k \in 1..Len(chunks) |-> chunks[k].content]

\* C14: the chunk fields of the events are the contents of the chunks received,
\* in the same order and each once, whether or not a chunk caused a split
\* (between the two events of a split the field of the last chunk is still to
\* come).
C14_ChunkFieldsAreChunks ==
    IF pc = "yield_next"
    THEN ChunkFields = SubSeq(ChunkContents, 1, Len(chunks) - 1)
    ELSE ChunkFields = ChunkContents

C14_Witness ==
    /\ pc = "done"
    /\ Len(chunks) = 3
    /\ Len(events) = 4
    /\ events[2].end_of_message
    /\ chunks[1].content # chunks[2].content
    /\ chunks[2].content # chunks[3].content
    /\ chunks[3].content = <<>>

\* the events a caller collects as finished messages
C17_Finished ==
    {i \in 1..Len(events) :
        events[i].end_of_message \/ events[i].end_of_response}

\* C17: a response shorter than message_length, in any chunking that ends
\* with the stop chunk, is never split: no event has new_message, exactly one
\* event is collected as a finished message, its message and its response are
\* the whole response, and a single empty stop chunk gives exactly one event.
C17_ShortResponseOneMessage ==
    (pc = "done" /\ Len(ContentsUpTo(Len(chunks))) < message_length) =>
        /\ \A i \in 1..Len(events) : ~events[i].new_message
        /\ Cardinality(C17_Finished) = 1
        /\ \A i \in C17_Finished :
               /\ events[i].message = ContentsUpTo(Len(chunks))
               /\ events[i].response = ContentsUpTo(Len(chunks))
        /\ (Len(chunks) = 1 /\ chunks[1].content = <<>>) =>
               /\ Len(events) = 1
               /\ events[1].message = <<>>
               /\ events[1].end_of_response

C17_Witness ==
    /\ pc = "done"
    /\ Len(chunks) = 3
    /\ Len(response) = 3
    /\ message_length = 4
    /\ Len(events) = 3
    /\ C17_Finished = {3}
    /\ events[3].message = response
    /\ SP \in {response[p] : p \in 1..Len(response)}

(***************************************************************************)
(* Properties of get_buffered_llm_response on any transport, checked       *)
(* under FaultSpec.                                                        *)
(***************************************************************************)
\* C11: once an event with end_of_response has been emitted, no event follows
\* it and no chunk is consumed after the chunk it was emitted for, whatever
\* the transport still delivers.
C11_NothingAfterFinalEvent ==
    \A i \in 1..Len(events) :
        events[i].end_of_response =>
            /\ i = Len(events)
            /\ Len(chunks) = Len(OpenEvents)

\* C18: when the transport raises after chunks none of which was marked stop,
\* the events emitted are those of the chunks delivered, none of them has
\* end_of_response, nothing is emitted or consumed afterwards, and the error
\* that comes out of the generator is the one the transport raised.
C18_ErrorPropagates ==
    (pc = "raised" /\ \A k \in 1..Len(chunks) : ~chunks[k].stop) =>
        /\ ChunkFields = ChunkContents
        /\ Len(events) =
               Len(chunks)
               + Cardinality({i \in 1..Len(events) : events[i].end_of_message})
        /\ \A i \in 1..Len(events) : ~events[i].end_of_response
        /\ ~IsNone(failure)
        /\ raised = failure
        /\ ~ENABLED FaultNext

C18_Witness ==
    /\ pc = "raised"
    /\ Len(chunks) = 2
    /\ \A k \in 1..Len(chunks) : ~chunks[k].stop
    /\ Len(events) = 3
    /\ events[2].end_of_message
    /\ events[3].new_message
    /\ raised = Some("TimeoutError")

(***************************************************************************)
(* Properties of process_message, checked under BotSpec.                   *)
(***************************************************************************)
\* the messages the call has added to the history of the user
Appended == SubSeq(db_messages, Len(db_at_call) + 1, Len(db_messages))

BotMessages == SelectSeq(Appended, LAMBDA m : m.role = BOT)

\* the events with end_of_response, in emission order
FinalEvents == SelectSeq(events, LAMBDA e : e.end_of_response)

\* C19 as stated: every call, however it ends, has appended exactly one BOT
\* message, the response of the event with end_of_response.
C19_OneBotMessagePerCall ==
    bot_pc \in {"done", "raised"} =>
        /\ Len(BotMessages) = 1
        /\ FinalEvents # <<>>
        /\ BotMessages[1].message = Last(FinalEvents).response

\* C19 amended: nothing is stored for the bot while the stream runs; a call
\* that returns has appended exactly one BOT message, as the last message
\* of the history, and its text is the response of the last event with
\* end_of_response, whatever the number of segments; a call that ends with
\* an error, the one of the transport or the one of storing None when no event
\* had end_of_response, has appended no BOT message.
C19_OneBotMessageWhenReturned ==
    /\ SubSeq(db_messages, 1, Len(db_at_call)) = db_at_call
    /\ bot_pc \in {"streaming", "raised"} => BotMessages = <<>>
    /\ bot_pc = "done" =>
           /\ pc = "done"
           /\ Len(BotMessages) = 1
           /\ Last(db_messages).role = BOT
           /\ FinalEvents # <<>>
           /\ Last(db_messages).message = Last(FinalEvents).response
    /\ bot_pc = "raised" =>
           \/ ~IsNone(failure) /\ bot_raised = failure
           \/ /\ pc = "done"
              /\ FinalEvents = <<>>
              /\ bot_raised = Some("IntegrityError")

C19_Witness ==
    /\ bot_pc = "done"
    /\ db_at_call = <<>>
    /\ Len(db_messages) = 3
    /\ db_messages[1].role = SYSTEM
    /\ db_messages[2].role = USER
    /\ db_messages[3].role = BOT
    /\ Len(events) = 4
    /\ events[1].end_of_message
    /\ events[3].end_of_message
    /\ db_messages[3].message # Last(events).message
    /\ db_messages[3].message = response

(***************************************************************************)
(* Properties of chained_reply, checked under ChainSpec.                   *)
(***************************************************************************)
\* C20: the chain of replies ends: a call is reached whose split_message
\* returns no second part (chains whose content outgrows MaxContent are left
\* undecided).
C20_ChainTerminates ==
    <>(chain_pc = "done" \/ Len(reply_content) > MaxContent)

(***************************************************************************)
(* Properties of requires_admin_permission, checked under AdminSpec.       *)
(***************************************************************************)
\* C21: the handler of a guarded command runs only for an author whose id is
\* in admins_id, and every other author gets the permission-denied reply and
\* no handler run.
C21_HandlerOnlyForAdmins ==
    \A i \in 1..Len(command_log) :
        LET c == command_log[i]
        IN  /\ c.handler_ran => c.author \in admins_id
            /\ c.author \notin admins_id =>
                   /\ ~c.handler_ran
                   /\ c.reply = Some(PermissionDenied)

(***************************************************************************)
(* Properties of BotDatabase, checked under DbSpec.                        *)
(***************************************************************************)
\* the positions of the stored messages of user_id
PositionsOf(rows, user_id) == {r.position : r \in UserRows(rows, user_id)}

\* C23: after any sequence of add_message, delete_message (also with a
\* Message object that was deleted before), delete_message_by_id,
\* delete_user_message_by_position and clear_user_messages calls, the
\* positions of every user's stored messages are exactly 0..n-1, without a
\* gap and without a duplicate.
C23_PositionsContiguous ==
    \A u \in DbUserIds :
        /\ PositionsOf(messages, u) = 0..(Cardinality(UserRows(messages, u)) - 1)
        /\ Cardinality(PositionsOf(messages, u)) =
               Cardinality(UserRows(messages, u))

\* C24: every public operation called while the database is not open raises
\* DatabaseNotOpen and changes nothing; open() opens a closed database,
\* close() closes an open one, and open() on an open database raises
\* DatabaseAlreadyOpen and leaves it open.
C24_ClosedDatabaseRaises ==
    [][/\ (~is_open /\ db_op' # "open") =>
              /\ db_raised' = Some("DatabaseNotOpen")
              /\ UNCHANGED <<is_open, default_system_prompt, users, messages>>
       /\ (~is_open /\ db_op' = "open") =>
              /\ is_open'
              /\ IsNone(db_raised')
              /\ UNCHANGED <<default_system_prompt, users, messages>>
       /\ (is_open /\ db_op' = "close") =>
              /\ ~is_open'
              /\ IsNone(db_raised')
              /\ UNCHANGED <<default_system_prompt, users, messages>>
       /\ (is_open /\ db_op' = "open") =>
              /\ is_open'
              /\ db_raised' = Some("DatabaseAlreadyOpen")
              /\ UNCHANGED <<default_system_prompt, users, messages>>]_vars

\* add_message was called on a database with users and messages after it
\* was closed
C24_Witness ==
    /\ ~is_open
    /\ db_op = "add_message"
    /\ db_raised = Some("DatabaseNotOpen")
    /\ users # <<>>
    /\ messages # {}

\* every user but user_id is as before the step
OtherUsersUnchanged(user_id) ==
    \A v \in DbUserIds \ {user_id} :
        /\ user_exists(users', v) <=> user_exists(users, v)
        /\ user_exists(users, v) => users'[v] = users[v]

\* the messages of every user but user_id are as before the step
OtherMessagesUnchanged(user_id) ==
    \A v \in DbUserIds \ {user_id} :
        UserRows(messages', v) = UserRows(messages, v)

\* C25: change_user_system_prompt(u, p) on an existing u sets u's prompt to
\* p and the text of every stored SYSTEM message of u to p, and leaves every
\* other user and every other message as it was; on a missing u it raises
\* UserDoesNotExist and changes nothing when create_user_if_not_found is
\* false, and creates u with prompt p when it is true.
C25_UserPromptChanged ==
    [][\A u \in DbUserIds, p \in Prompts, create \in BOOLEAN :
          (is_open /\ ChangeUserSystemPrompt(u, p, create)) =>
              IF user_exists(users, u)
              THEN /\ IsNone(db_raised')
                   /\ user_exists(users', u)
                   /\ users'[u] = p
                   /\ OtherUsersUnchanged(u)
                   /\ OtherMessagesUnchanged(u)
                   /\ {r.id : r \in messages'} = {r.id : r \in messages}
                   /\ \A r \in UserRows(messages, u) :
                          \E s \in messages' :
                              /\ s.id = r.id
                              /\ s.user_id = u
                              /\ s.position = r.position
                              /\ s.role = r.role
                              /\ s.message = IF r.role = SYSTEM THEN p
                                             ELSE r.message
              ELSE IF create
              THEN /\ IsNone(db_raised')
                   /\ user_exists(users', u)
                   /\ users'[u] = p
                   /\ OtherUsersUnchanged(u)
                   /\ messages' = messages
              ELSE /\ db_raised' = Some("UserDoesNotExist")
                   /\ UNCHANGED <<is_open, default_system_prompt, users,
                                  messages>>]_vars

\* the prompt of a user with a SYSTEM and a USER message was changed
C25_Witness ==
    /\ db_op = "change_user_system_prompt"
    /\ IsNone(db_raised)
    /\ \E u \in DOMAIN users :
          /\ users[u] = "P1"
          /\ \E r \in UserRows(messages, u) :
                r.role = SYSTEM /\ r.message = "P1"
          /\ \E r \in UserRows(messages, u) :
                r.role = USER /\ r.message = "hi"

\* C26 as stated: change_global_default_system_prompt(p) returns the number
\* of users whose system_prompt it changed.
C26_ReturnsNumberChanged ==
    [][\A p \in Prompts :
          (is_open /\ ChangeGlobalDefaultSystemPrompt(p)) =>
              db_result' = Some(Cardinality({u \in DOMAIN users :
                                                users'[u] # users[u]}))]_vars

\* C26: change_global_default_system_prompt(p) gives p to every user whose
\* system_prompt equals the previous default and leaves every other user's
\* prompt, returns the number of users whose prompt equalled the previous
\* default, and every user added afterwards without a prompt gets p.
C26_DefaultPromptReplaced ==
    [][/\ \A p \in Prompts :
             (is_open /\ ChangeGlobalDefaultSystemPrompt(p)) =>
                 /\ DOMAIN users' = DOMAIN users
                 /\ \A u \in DOMAIN users :
                        users'[u] = IF users[u] = default_system_prompt
                                    THEN p ELSE users[u]
                 /\ db_result' =
                        Some(Cardinality({u \in DOMAIN users :
                                users[u] = default_system_prompt}))
                 /\ default_system_prompt' = p
                 /\ messages' = messages
       /\ \A u \in DbUserIds :
             (is_open /\ ~user_exists(users, u) /\ AddUser(u, None)) =>
                 users'[u] = default_system_prompt
       /\ db_op' # "change_global_default_system_prompt" =>
             default_system_prompt' = default_system_prompt]_vars

\* the default changed for one of two users
C26_Witness ==
    /\ db_op = "change_global_default_system_prompt"
    /\ db_result = Some(1)
    /\ default_system_prompt = "P1"
    /\ DOMAIN users = DbUserIds

\* C27: delete_user(u) returns True exactly when u existed; afterwards u
\* does not exist and has no stored messages, and every other user and their
\* messages are as before.
C27_UserDeleted ==
    [][\A u \in DbUserIds :
          (is_open /\ DeleteUser(u)) =>
              /\ db_result' = Some(user_exists(users, u))
              /\ ~user_exists(users', u)
              /\ UserRows(messages', u) = {}
              /\ OtherUsersUnchanged(u)
              /\ OtherMessagesUnchanged(u)]_vars

\* a user with messages was deleted and another user with messages is left
C27_Witness ==
    /\ db_op = "delete_user"
    /\ db_result = Some(TRUE)
    /\ Cardinality(DOMAIN users) = 1
    /\ Cardinality(messages) = 1
    /\ ~IsNone(held_message)
    /\ ~user_exists(users, Value(held_message).user_id)

\* C28: delete_message_by_id, delete_user_message_by_position and
\* clear_user_messages change the messages of the targeted user only; the
\* two deletes return True exactly when the targeted message existed, and
\* otherwise return False and leave the store unchanged.
C28_OnlyTargetedUser ==
    [][/\ \A id \in MessageIds :
             (is_open /\ DeleteMessageById(id)) =>
                 LET found == {r \in messages : r.id = id}
                 IN  IF found = {}
                     THEN /\ db_result' = Some(FALSE)
                          /\ UNCHANGED <<is_open, default_system_prompt,
                                         users, messages>>
                     ELSE /\ db_result' = Some(TRUE)
                          /\ users' = users
                          /\ \A r \in found :
                                 /\ OtherMessagesUnchanged(r.user_id)
                                 /\ \A s \in messages' : s.id # id
       /\ \A u \in DbUserIds, pos \in Positions :
             (is_open /\ DeleteUserMessageByPosition(u, pos)) =>
                 IF pos \notin PositionsOf(messages, u)
                 THEN /\ db_result' = Some(FALSE)
                      /\ UNCHANGED <<is_open, default_system_prompt, users,
                                     messages>>
                 ELSE /\ db_result' = Some(TRUE)
                      /\ users' = users
                      /\ OtherMessagesUnchanged(u)
                      /\ Cardinality(UserRows(messages', u)) =
                             Cardinality(UserRows(messages, u)) - 1
       /\ \A u \in DbUserIds :
             (is_open /\ ClearUserMessages(u)) =>
                 /\ users' = users
                 /\ UserRows(messages', u) = {}
                 /\ OtherMessagesUnchanged(u)]_vars

\* a message of one user was deleted while the other user has a message at
\* a later position
C28_Witness ==
    /\ db_op \in {"delete_message_by_id", "delete_user_message_by_position"}
    /\ db_result = Some(TRUE)
    /\ \E r \in messages : r.position = 1
    /\ \E u \in DbUserIds : UserRows(messages, u) = {}

\* C29: add_message for a user id that does not exist raises
\* UserDoesNotExist and stores no user and no message when
\* create_user_if_not_found is false; when it is true the user is created
\* with the default system prompt and the message is stored at position 0.
C29_MessageForMissingUser ==
    [][\A u \in DbUserIds, role \in Roles, text \in Texts, create \in BOOLEAN :
          (is_open /\ ~user_exists(users, u)
                   /\ AddMessage(u, role, text, create)) =>
              IF create
              THEN /\ IsNone(db_raised')
                   /\ user_exists(users', u)
                   /\ users'[u] = default_system_prompt
                   /\ OtherUsersUnchanged(u)
                   /\ OtherMessagesUnchanged(u)
                   /\ \E r \in messages' :
                          /\ UserRows(messages', u) = {r}
                          /\ r.position = 0
                          /\ r.role = role
                          /\ r.message = text
              ELSE /\ db_raised' = Some("UserDoesNotExist")
                   /\ UNCHANGED <<is_open, default_system_prompt, users,
                                  messages>>]_vars

\* the only user was created by add_message with the default prompt "P1"
C29_Witness ==
    /\ db_op = "add_message"
    /\ IsNone(db_raised)
    /\ default_system_prompt = "P1"
    /\ \E u \in DbUserIds :
          /\ DOMAIN users = {u}
          /\ users[u] = "P1"
          /\ Cardinality(messages) = 1
          /\ PositionsOf(messages, u) = {0}

\* C30: add_user(u, p) returns True and creates u when u does not exist,
\* with the current default system prompt when p is absent, and returns
\* False and leaves the existing user as it is when u exists, whatever p is.
C30_UserAdded ==
    [][\A u \in DbUserIds, p \in {None} \cup {Some(q) : q \in Prompts} :
          (is_open /\ AddUser(u, p)) =>
              IF user_exists(users, u)
              THEN /\ db_result' = Some(FALSE)
                   /\ UNCHANGED <<is_open, default_system_prompt, users,
                                  messages>>
              ELSE /\ db_result' = Some(TRUE)
                   /\ user_exists(users', u)
                   /\ users'[u] = IF IsNone(p) THEN default_system_prompt
                                  ELSE Value(p)
                   /\ OtherUsersUnchanged(u)
                   /\ messages' = messages]_vars

\* a user was added with the default prompt "P1" next to a user with ""
C30_Witness ==
    /\ db_op = "add_user"
    /\ db_result = Some(TRUE)
    /\ default_system_prompt = "P1"
    /\ DOMAIN users = DbUserIds
    /\ \E u, v \in DbUserIds : users[u] = "P1" /\ users[v] = ""

\* C31: get_or_create_user(u, p) returns the stored user unchanged,
\* ignoring p, when u exists; otherwise it creates u with prompt p, or with
\* the default prompt when p is absent, and returns that user; u exists
\* afterwards and no other user changes.
C31_UserFetchedOrCreated ==
    [][\A u \in DbUserIds, p \in {None} \cup {Some(q) : q \in Prompts} :
          (is_open /\ GetOrCreateUser(u, p)) =>
              /\ IsNone(db_raised')
              /\ user_exists(users', u)
              /\ db_result' = Some(users'[u])
              /\ users'[u] = IF user_exists(users, u) THEN users[u]
                             ELSE IF IsNone(p) THEN default_system_prompt
                             ELSE Value(p)
              /\ OtherUsersUnchanged(u)
              /\ messages' = messages]_vars

\* get_or_create_user returned a user with prompt "P1" while the default
\* prompt is "", next to another user
C31_Witness ==
    /\ db_op = "get_or_create_user"
    /\ db_result = Some("P1")
    /\ default_system_prompt = ""
    /\ DOMAIN users = DbUserIds
    /\ \E u \in DbUserIds : users[u] = "P1"

(***************************************************************************)
(* Properties of set_user_generation_parameter, checked under ParamSpec.   *)
(***************************************************************************)
\* C32: a call of set_user_generation_parameter that ends in
\* ParameterSetError leaves the database unchanged: no parameter of any user
\* is modified and no user is created.
C32_FailedSetChangesNothing ==
    [][(is_open /\ db_op' = "set_user_generation_parameter"
                /\ db_raised' = Some("ParameterSetError")) =>
           UNCHANGED <<users, gen_params, messages>>]_vars

(***************************************************************************)
(* A further property of split_message, checked under SplitSpec.           *)
(***************************************************************************)
\* C33: whenever split_message(m, limit) with limit > 0 returns a second
\* part, that second part is strictly shorter than m.
C33_SecondShorterThanMessage ==
    (Called /\ arg_threshold > 0 /\ ~IsNone(Out.second)) =>
        Len(Value(Out.second)) < Len(arg_message)

(***************************************************************************)
(* Properties of the stored history, checked under OverlapSpec and         *)
(* SessionSpec.                                                            *)
(***************************************************************************)
\* C34: when two process_message calls for the same user overlap, the
\* stored history still has every BOT message directly after the USER
\* message it answers, and no two USER messages and no two BOT messages
\* next to each other.
C34_AnswersFollowQuestions ==
    Quiescent =>
        \A i \in 1..Len(db_messages) :
            /\ db_messages[i].role = BOT =>
                   /\ i > 1
                   /\ db_messages[i - 1].role = USER
                   /\ db_messages[i].message =
                          AnswerTo(db_messages[i - 1].message)
            /\ (i > 1 /\ db_messages[i].role = USER) =>
                   db_messages[i - 1].role # USER

\* C35: after non-overlapping process_message calls that each end with a
\* stop chunk, and any number of clear_user_messages calls, the stored
\* history is empty or one SYSTEM message followed by alternating USER and
\* BOT messages that end with BOT.
C35_HistoryLayout ==
    Quiescent =>
        \/ db_messages = <<>>
        \/ /\ Len(db_messages) >= 3
           /\ Len(db_messages) % 2 = 1
           /\ db_messages[1].role = SYSTEM
           /\ \A i \in 2..Len(db_messages) :
                  db_messages[i].role = IF i % 2 = 0 THEN USER ELSE BOT

(***************************************************************************)
(* Properties of the system prompts, checked under PromptSpec.             *)
(***************************************************************************)
\* C37: for every user that has a stored SYSTEM message, the text of that
\* message equals the system prompt of the user.
C37_SystemMessageIsPrompt ==
    \A r \in messages :
        r.role = SYSTEM => /\ user_exists(users, r.user_id)
                           /\ r.message = users[r.user_id]

(***************************************************************************)
(* Properties of on_raw_reaction_add, checked under ReactSpec.             *)
(***************************************************************************)
\* C38: on_raw_reaction_add deletes a message only for an event whose
\* message was authored by the bot, whose reaction was added by a user
\* other than the bot and whose emoji is message_removal_reaction; the
\* messages of others stay, and a message of the bot stays while nothing
\* but the bot's own reaction of bot_reply, or another emoji, was handled.
C38_DeletesOnlyOnRemovalByOthers ==
    /\ \A event \in removed :
           /\ event.message_author_id = BotAccount
           /\ posts[event.message_id].author_id = BotAccount
           /\ event.user_id # BotAccount
           /\ event.emoji = message_removal_reaction
    /\ \A m \in 1..Len(posts) :
           ~posts[m].live => \E event \in removed : event.message_id = m

\* a reply of the bot was deleted on the reaction of a member while the
\* bot's own reaction on another reply has been handled and that reply stays
C38_Witness ==
    /\ removed # {}
    /\ pending_reactions = <<>>
    /\ \E m \in 1..Len(posts) :
           /\ posts[m].author_id = BotAccount
           /\ posts[m].live
           /\ posts[m].channel \in DeletableChannels

(***************************************************************************)
(* Properties of process_inference_command, checked under RenderSpec.      *)
(***************************************************************************)
\* the message of the last event of every segment of a sequence of events:
\* an event with new_message opens a segment, and so does the first event
RECURSIVE FinalMessages(_)
FinalMessages(evs) ==
    IF evs = <<>> THEN <<>>
    ELSE LET before == FinalMessages(SubSeq(evs, 1, Len(evs) - 1))
             e == evs[Len(evs)]
         IN  IF e.new_message \/ before = <<>>
             THEN Append(before, e.message)
             ELSE [before EXCEPT ![Len(before)] = e.message]

\* process_inference_command has consumed a whole response
WholeResponseRendered ==
    /\ render_pc = "done"
    /\ events # <<>>
    /\ Last(events).end_of_response

\* C36 as stated: once the whole response is consumed, the k-th bot message
\* shows exactly the final message of the k-th segment, whatever the
\* cooldown did.
C36_ShowsFinalMessages ==
    WholeResponseRendered => reply_chain = FinalMessages(events)

====
